---- MODULE Spec2Model ----
(***************************************************************************)
(* State-machine model of gardener-custom-metrics: the input data registry *)
(* (pkg/input/input_data_registry), the pacemaker, scrape queue and        *)
(* scraper (pkg/input/metrics_scraper) and the HA endpoint steerer         *)
(* (pkg/ha).                                                               *)
(*                                                                         *)
(* Time is a discrete clock `now` counted in ticks. A time.Time value is   *)
(* an integer; ZeroTime is Go's zero time.Time, every clock reading is     *)
(* >= 1. Float quantities of the pacemaker are fixed-point integers in     *)
(* units of 1/ScrapePeriod scrape.                                         *)
(***************************************************************************)
EXTENDS Integers, Sequences, FiniteSets, TLC

\* ------------------------------------------------------------------------
\* Bounds of the model
\* ------------------------------------------------------------------------
MaxTime == 4
MaxCount == 1
MaxFault == 2
MaxRefs == 2
MaxWatcherRegs == 3
MaxDebtLimit == 2
MaxBenchTime == 6

\* ------------------------------------------------------------------------
\* Program constants (scaled to ticks)
\* ------------------------------------------------------------------------
MinSampleGap == 2
\* scrapePeriod, in ticks. Pacemaker debt and surplus are counted in units of
\* 1/ScrapePeriod scrape, so that targetCount/scrapePeriod scrapes per second is
\* targetCount units per tick.
ScrapePeriod == 3
\* pacemakerConfig.MaxRate, in units per tick, and RateSurplusLimit, in scrapes
MaxRate == 4
RateSurplusLimit == 2

ZeroTime == 0
\* time.Duration saturates at math.MaxInt64 nanoseconds (about 292 years)
MaxDuration == 1000000

Namespaces == {"ns1"}
LabelKeys == {"a"}
LabelVals == {"1", "2"}
NoVal == ""
Pods == {"p1", "p2"}
Callers == {"c1", "c2"}
Watchers == {"w1", "w2"}
NilMap == 0
NoCA == "noCA"
KapiEventCreate == "create"
KapiEventDelete == "delete"

VARIABLES
    \* inputDataRegistry
    shoots,         \* reg.shoots: namespace -> shootData (exists = FALSE: no map entry)
    kapiWatchers,   \* reg.kapiWatchers: sequence of watcher handles
    labelHeap,      \* the Go heap of map[string]string objects, by reference
    now,            \* the wall clock (testIsolation.TimeNow)
    \* callers of the registry
    setPending,     \* caller -> SetKapiMetrics call that has read TimeNow and awaits reg.lock
    snapshot,       \* the *KapiData most recently returned to a caller by a read
    callerMap,      \* the map reference the caller passed to the latest SetKapiData
    \* observation of the last step
    lastOp,         \* name and result of the operation performed by the last step
    notified,       \* events delivered to watchers by the last step, in delivery order
    removedOk,      \* watchers for which RemoveKapiWatcher returned true and that were not added since
    watcherLog,     \* what each registration of a recording watcher has been told, by registration
    \* pacemakerImpl
    pm,             \* config (MinRate, MaxRate, limits), lastUpdateTime, currentDebt, currentSurplus
    callerLog,      \* the tally of the GetScrapePermission caller: results per clock value
    getNextLog,     \* the tally of the GetNext callers: the targets returned, in order
    closeCalls,     \* the Close calls: where each stands, and how often close(q.updateQueue) ran
    \* HAService replicas, the leader election and the API server
    leader,         \* the replica holding the leader lease, NoReplica if none
    ha,             \* replica -> position in Start / cleanUpServiceEndpoints, ctx state, object read, attempt
    endpoints,      \* the Endpoints object in the API server
    endpointsCache, \* the copy of it the manager's cached client returns
    apiSeq,         \* the API server's counter behind resource versions and UIDs
    \* Scraper
    sc,             \* lastShiftStartTime, lastShiftWorkerCount, lastShiftScrapeTargetCount, activeWorkerCount
    startRun,       \* Start's position, ctx, workerWaitGroup and each worker goroutine's position
    response,       \* a metrics response body and what getTotalRequestCount made of it
    \* scrapeQueueImpl
    targets,        \* q.targets: the list of scrape targets, front first
    updateQueue,    \* the events buffered in the q.updateQueue channel
    sendBlocked,    \* the event a registry mutator is blocked sending, holding reg.lock and updateQueueLock
    workerEvent,    \* the event processKapiEvents has received and not yet applied
    workerExited,   \* processKapiEvents has returned
    targetLock,     \* who holds q.targetLock, and where it stands
    candidate,      \* the target and clock value GetNext settled on
    closePc         \* how far Close has got

regVars == <<shoots, kapiWatchers, labelHeap, now, setPending, snapshot, callerMap,
             lastOp, notified, removedOk, watcherLog>>

regData == <<shoots, kapiWatchers, labelHeap, setPending, snapshot, callerMap, removedOk, watcherLog>>

pmVars == <<pm>>

logVars == <<callerLog, getNextLog, closeCalls>>

haVars == <<leader, ha, endpoints, endpointsCache, apiSeq>>

scVars == <<sc, startRun, response>>

sqVars == <<targets, updateQueue, sendBlocked, workerEvent, workerExited, targetLock,
            candidate, closePc>>

vars == <<regVars, pmVars, logVars, haVars, scVars, sqVars>>

\* The variables of the other components, which a step of one component leaves alone
restOfReg == <<pmVars, logVars, haVars, scVars, sqVars>>

restOfPm == <<haVars, scVars, sqVars>>

restOfHa == <<regData, now, notified, pmVars, logVars, scVars, sqVars>>

restOfSc == <<regData, now, notified, pmVars, logVars, haVars, sqVars>>

restOfSq == <<labelHeap, setPending, snapshot, callerMap, watcherLog, logVars, haVars, scVars>>

\* ------------------------------------------------------------------------
\* time.Time arithmetic
\* ------------------------------------------------------------------------
\* t.Sub(u): the difference saturates when u is the zero time and t a clock reading
TimeSub(t, u) ==
    IF u = ZeroTime /\ t # ZeroTime THEN MaxDuration
    ELSE IF t = ZeroTime /\ u # ZeroTime THEN -MaxDuration
    ELSE t - u

\* ------------------------------------------------------------------------
\* Pacemaker
\* ------------------------------------------------------------------------
Unit == ScrapePeriod

Min(a, b) == IF a < b THEN a ELSE b

Max(a, b) == IF a > b THEN a ELSE b

\* newPacemaker(config): the configuration is copied, the state is zero. Rates are
\* in units per tick, the two limits in scrapes.
newPacemakerImpl(minRate, maxRate, rateDebtLimit, rateSurplusLimit) ==
    [MinRate |-> minRate, MaxRate |-> maxRate,
     RateDebtLimit |-> rateDebtLimit, RateSurplusLimit |-> rateSurplusLimit,
     lastUpdateTime |-> ZeroTime, currentDebt |-> 0, currentSurplus |-> 0]

\* The pacemaker newScrapeQueue builds: MaxRate and RateSurplusLimit are fixed
newPacemaker(minRate, rateDebtLimit) ==
    newPacemakerImpl(minRate, MaxRate, rateDebtLimit, RateSurplusLimit)

UpdateRatePM(p, minRate, rateDebtLimit) ==
    [p EXCEPT !.MinRate = minRate, !.RateDebtLimit = rateDebtLimit]

\* Mutant: the accumulated debt is not bounded by RateDebtLimit
PMElapsedNoDebtClamp(p, t) ==
    LET last == IF p.lastUpdateTime = ZeroTime THEN t ELSE p.lastUpdateTime
        elapsed == t - last
    IN [p EXCEPT !.lastUpdateTime = t,
                 !.currentDebt = p.currentDebt + elapsed * p.MinRate,
                 !.currentSurplus = Max(p.currentSurplus - elapsed * p.MaxRate, 0)]

\* Mutant: the surplus is not bounded below by zero before the decision
PMElapsedNoSurplusFloor(p, t) ==
    LET last == IF p.lastUpdateTime = ZeroTime THEN t ELSE p.lastUpdateTime
        elapsed == t - last
    IN [p EXCEPT !.lastUpdateTime = t,
                 !.currentDebt = Min(p.currentDebt + elapsed * p.MinRate, p.RateDebtLimit * Unit),
                 !.currentSurplus = p.currentSurplus - elapsed * p.MaxRate]

\* GetScrapePermission up to the decision: the elapsed time applied to debt and
\* surplus, then the upper bound of the debt and the lower bound of the surplus
PMElapsed(p, t) ==
    LET last == IF p.lastUpdateTime = ZeroTime THEN t ELSE p.lastUpdateTime
        elapsed == t - last
    IN [p EXCEPT !.lastUpdateTime = t,
                 !.currentDebt = Min(p.currentDebt + elapsed * p.MinRate, p.RateDebtLimit * Unit),
                 !.currentSurplus = Max(p.currentSurplus - elapsed * p.MaxRate, 0)]

\* Mutant: a caller that is not eager is granted whenever the surplus permits
PMAllowedIgnoringDebt(p, t, isEagerToScrape) ==
    PMElapsed(p, t).currentSurplus <= (p.RateSurplusLimit - 1) * Unit

\* Mutant: the surplus is not consulted
PMAllowedIgnoringSurplus(p, t, isEagerToScrape) ==
    PMElapsed(p, t).currentDebt >= Unit \/ isEagerToScrape

PMAllowed(p, t, isEagerToScrape) ==
    LET q == PMElapsed(p, t)
    IN /\ q.currentSurplus <= (p.RateSurplusLimit - 1) * Unit
       /\ (q.currentDebt >= Unit \/ isEagerToScrape)

\* Mutant: the debt is not bounded below by zero after the decision
GetScrapePermissionPMNoDebtFloor(p, t, isEagerToScrape) ==
    LET q == PMElapsed(p, t)
        r == IF PMAllowed(p, t, isEagerToScrape)
             THEN [q EXCEPT !.currentDebt = @ - Unit, !.currentSurplus = @ + Unit]
             ELSE q
    IN [r EXCEPT !.currentSurplus = Min(@, p.RateSurplusLimit * Unit)]

\* The pacemaker after GetScrapePermission(isEagerToScrape) called at clock value t
GetScrapePermissionPM(p, t, isEagerToScrape) ==
    LET q == PMElapsed(p, t)
        r == IF PMAllowed(p, t, isEagerToScrape)
             THEN [q EXCEPT !.currentDebt = @ - Unit, !.currentSurplus = @ + Unit]
             ELSE q
    IN [r EXCEPT !.currentDebt = Max(@, 0),
                 !.currentSurplus = Min(@, p.RateSurplusLimit * Unit)]

\* The tally of the GetNext callers: the targets returned so far, whether a call
\* has returned nil at the present clock value since the last target was returned,
\* and whether that was so at every clock value so far (the workers never left the
\* queue unpolled)
NewGetNextLog == [returned |-> <<>>, polled |-> FALSE, continuous |-> TRUE]

\* The goroutines calling Close
Closers == {"k1", "k2"}

\* No Close call was made yet; closes counts the executions of close(q.updateQueue)
NoCloseCalls ==
    [pc |-> [k \in Closers |-> "idle"], err |-> [k \in Closers |-> FALSE], closes |-> 0,
     removedAfter |-> {}]

\* The clock values a caller's tally covers
LogTimes == 1..Max(MaxTime, MaxBenchTime)

\* The tally of a caller that is always eager ("eager"), never eager ("lazy") or
\* either ("mixed"): the clock value of its first call, the argument of its latest
\* call, whether it made a call that was not eager, and per clock value the number of
\* calls granted and whether one was denied
NewCallerLog(mode) ==
    [mode |-> mode, first |-> ZeroTime, eager |-> FALSE, lazyCalls |-> FALSE,
     granted |-> [t \in LogTimes |-> 0], denied |-> [t \in LogTimes |-> FALSE]]

CallerLogged(log, t, isEagerToScrape, isAllowedToScrape) ==
    [log EXCEPT !.first = IF @ = ZeroTime THEN t ELSE @,
                !.eager = isEagerToScrape,
                !.lazyCalls = @ \/ ~isEagerToScrape,
                !.granted[t] = IF isAllowedToScrape THEN @ + 1 ELSE @,
                !.denied[t] = @ \/ ~isAllowedToScrape]

\* ------------------------------------------------------------------------
\* Registry element types
\* ------------------------------------------------------------------------
NewKapiData(ns, pod) ==
    [shootNamespace |-> ns, podName |-> pod, PodLabels |-> NilMap, MetricsUrl |-> "",
     TotalRequestCountNew |-> 0, MetricsTimeNew |-> ZeroTime,
     TotalRequestCountOld |-> 0, MetricsTimeOld |-> ZeroTime,
     PodUID |-> "", LastMetricsScrapeTime |-> ZeroTime, FaultCount |-> 0]

NewShootData == [exists |-> TRUE, AuthSecret |-> "", CACertPool |-> NoCA, KapiData |-> <<>>]

NoShootData == [exists |-> FALSE, AuthSecret |-> "", CACertPool |-> NoCA, KapiData |-> <<>>]

\* slices.IndexFunc(shoot.KapiData, PodName() == podName); 0 stands for -1
KapiIndex(kd, pod) ==
    IF \E i \in 1..Len(kd) : kd[i].podName = pod
    THEN CHOOSE i \in 1..Len(kd) : kd[i].podName = pod /\ \A j \in 1..(i-1) : kd[j].podName # pod
    ELSE 0

HasKapi(sh, ns, pod) == sh[ns].exists /\ KapiIndex(sh[ns].KapiData, pod) # 0

getKapiDataThreadUnsafe(sh, ns, pod) == sh[ns].KapiData[KapiIndex(sh[ns].KapiData, pod)]

\* append(s[:i], s[i+1:]...)
RemoveAt(s, i) == [j \in 1..(Len(s)-1) |-> IF j < i THEN s[j] ELSE s[j+1]]

\* Replace the record of an existing pod
WithKapi(sh, ns, pod, k) ==
    [sh EXCEPT ![ns].KapiData[KapiIndex(sh[ns].KapiData, pod)] = k]

\* ------------------------------------------------------------------------
\* Registry operations, as functions of reg.shoots
\* ------------------------------------------------------------------------
getOrCreateShootDataThreadUnsafe(sh, ns) ==
    IF sh[ns].exists THEN sh ELSE [sh EXCEPT ![ns] = NewShootData]

\* Mutant: the lookup is skipped and a record is appended on every call
getOrCreateKapiDataAppending(sh, ns, pod) ==
    LET sh1 == getOrCreateShootDataThreadUnsafe(sh, ns)
    IN [sh1 EXCEPT ![ns].KapiData = Append(@, NewKapiData(ns, pod))]

getOrCreateKapiDataThreadUnsafe(sh, ns, pod) ==
    LET sh1 == getOrCreateShootDataThreadUnsafe(sh, ns)
    IN IF KapiIndex(sh1[ns].KapiData, pod) # 0 THEN sh1
       ELSE [sh1 EXCEPT ![ns].KapiData = Append(@, NewKapiData(ns, pod))]

\* Mutant: an update replaces the record by a new one
SetKapiDataShootsReplacing(sh, ns, pod, uid, labels, url) ==
    WithKapi(getOrCreateKapiDataThreadUnsafe(sh, ns, pod), ns, pod,
             [NewKapiData(ns, pod) EXCEPT !.PodUID = uid, !.MetricsUrl = url, !.PodLabels = labels])

SetKapiDataShoots(sh, ns, pod, uid, labels, url) ==
    LET sh1 == getOrCreateKapiDataThreadUnsafe(sh, ns, pod)
        k == getKapiDataThreadUnsafe(sh1, ns, pod)
    IN WithKapi(sh1, ns, pod, [k EXCEPT !.PodUID = uid, !.MetricsUrl = url, !.PodLabels = labels])

\* Mutant: the shoot record is kept when its last target goes
RemoveKapiDataKeepingShoot(sh, ns, pod) ==
    IF ~HasKapi(sh, ns, pod) THEN sh
    ELSE [sh EXCEPT ![ns].KapiData = RemoveAt(@, KapiIndex(@, pod))]

RemoveKapiDataShoots(sh, ns, pod) ==
    IF ~HasKapi(sh, ns, pod) THEN sh
    ELSE IF Len(sh[ns].KapiData) = 1
         THEN IF sh[ns].AuthSecret = "" /\ sh[ns].CACertPool = NoCA
              THEN [sh EXCEPT ![ns] = NoShootData]
              ELSE [sh EXCEPT ![ns].KapiData = <<>>]
         ELSE [sh EXCEPT ![ns].KapiData = RemoveAt(@, KapiIndex(@, pod))]

\* certificate []byte: nil, a PEM certificate, or bytes holding no certificate
NilCertificate == "nil"

Certificates == {NilCertificate, "pem1", "garbage"}

\* x509.NewCertPool() followed by AppendCertsFromPEM(certificate): a pool, empty when
\* the bytes hold no certificate
CertPoolOf(certificate) ==
    IF certificate = "pem1" THEN "pool(pem1)" ELSE "emptyPool"

\* SetShootAuthSecret; shoot.KapiData is nil exactly when it is empty
SetShootAuthSecretShoots(sh, ns, authSecret) ==
    IF ~sh[ns].exists
    THEN IF authSecret = "" THEN sh
         ELSE [sh EXCEPT ![ns] = [NewShootData EXCEPT !.AuthSecret = authSecret]]
    ELSE IF authSecret = "" /\ sh[ns].CACertPool = NoCA /\ sh[ns].KapiData = <<>>
         THEN [sh EXCEPT ![ns] = NoShootData]
         ELSE [sh EXCEPT ![ns].AuthSecret = authSecret]

SetShootCACertificateShoots(sh, ns, certificate) ==
    IF ~sh[ns].exists
    THEN IF certificate = NilCertificate THEN sh
         ELSE [sh EXCEPT ![ns] = [NewShootData EXCEPT !.CACertPool = CertPoolOf(certificate)]]
    ELSE IF certificate = NilCertificate /\ sh[ns].AuthSecret = "" /\ sh[ns].KapiData = <<>>
         THEN [sh EXCEPT ![ns] = NoShootData]
         ELSE IF certificate = NilCertificate
              THEN [sh EXCEPT ![ns].CACertPool = NoCA]
              ELSE [sh EXCEPT ![ns].CACertPool = CertPoolOf(certificate)]

\* Mutant: a sample equal to the stored counter counts as out of order
SampleIgnoredStrictCount(k, count, t) ==
    \/ count <= k.TotalRequestCountNew
    \/ TimeSub(t, k.MetricsTimeNew) < MinSampleGap

\* Mutant: the minimum-gap test is dropped
SampleIgnoredNoGap(k, count, t) ==
    count < k.TotalRequestCountNew

\* The sample is ignored: out of order, or scraped too soon after the stored one
SampleIgnored(k, count, t) ==
    \/ count < k.TotalRequestCountNew
    \/ TimeSub(t, k.MetricsTimeNew) < MinSampleGap

\* Mutant: the fault counter survives a sample
SetKapiMetricsKapiKeepingFaults(k, count, t) ==
    IF SampleIgnored(k, count, t) THEN k
    ELSE [k EXCEPT !.MetricsTimeOld = k.MetricsTimeNew,
                   !.TotalRequestCountOld = k.TotalRequestCountNew,
                   !.MetricsTimeNew = t,
                   !.TotalRequestCountNew = count]

\* Mutant: only an accepted sample resets the fault counter
SetKapiMetricsKapiResetOnAccept(k, count, t) ==
    IF SampleIgnored(k, count, t) THEN k
    ELSE [k EXCEPT !.FaultCount = 0,
                   !.MetricsTimeOld = k.MetricsTimeNew,
                   !.TotalRequestCountOld = k.TotalRequestCountNew,
                   !.MetricsTimeNew = t,
                   !.TotalRequestCountNew = count]

\* SetKapiMetrics, t being the TimeNow() read before the lock was taken
SetKapiMetricsKapi(k, count, t) ==
    LET k0 == [k EXCEPT !.FaultCount = 0]
    IN IF SampleIgnored(k, count, t) THEN k0
       ELSE [k0 EXCEPT !.MetricsTimeOld = k.MetricsTimeNew,
                       !.TotalRequestCountOld = k.TotalRequestCountNew,
                       !.MetricsTimeNew = t,
                       !.TotalRequestCountNew = count]

SetKapiMetricsShoots(sh, ns, pod, count, t) ==
    IF ~HasKapi(sh, ns, pod) THEN sh
    ELSE WithKapi(sh, ns, pod, SetKapiMetricsKapi(getKapiDataThreadUnsafe(sh, ns, pod), count, t))

\* Mutant: the time is not recorded
SetKapiLastScrapeTimeShootsUnrecorded(sh, ns, pod, value) == sh

SetKapiLastScrapeTimeShoots(sh, ns, pod, value) ==
    IF ~HasKapi(sh, ns, pod) THEN sh
    ELSE WithKapi(sh, ns, pod,
                  [getKapiDataThreadUnsafe(sh, ns, pod) EXCEPT !.LastMetricsScrapeTime = value])

\* Mutant: the fault is reported but not counted
NotifyKapiMetricsFaultShootsNotCounting(sh, ns, pod) == sh

\* FaultCount++ ; the int counter is capped by the model bound in the action guards
NotifyKapiMetricsFaultShoots(sh, ns, pod) ==
    IF ~HasKapi(sh, ns, pod) THEN sh
    ELSE WithKapi(sh, ns, pod,
                  [getKapiDataThreadUnsafe(sh, ns, pod) EXCEPT !.FaultCount = @ + 1])

NotifyKapiMetricsFaultResult(sh, ns, pod) ==
    IF ~HasKapi(sh, ns, pod) THEN -1
    ELSE getKapiDataThreadUnsafe(sh, ns, pod).FaultCount + 1

\* notifyKapiWatchersThreadUnsafe, called when reg.shoots is sh: one call per
\* registered handle, in slice order; `present` tells whether the record the watcher
\* is handed is on record while it is called
notifyKapiWatchersThreadUnsafe(sh, ws, ns, pod, event) ==
    [i \in 1..Len(ws) |->
        [w |-> ws[i], ns |-> ns, pod |-> pod, type |-> event, present |-> HasKapi(sh, ns, pod)]]

\* Mutant: every SetKapiData call raises the create event
SetKapiDataEventsOnEveryCall(sh, ws, ns, pod, uid, labels, url) ==
    notifyKapiWatchersThreadUnsafe(SetKapiDataShoots(sh, ns, pod, uid, labels, url),
                                   ws, ns, pod, KapiEventCreate)

\* The calls SetKapiData makes to the watchers: if isCreate, after the fields are set
SetKapiDataEvents(sh, ws, ns, pod, uid, labels, url) ==
    IF HasKapi(sh, ns, pod) THEN <<>>
    ELSE notifyKapiWatchersThreadUnsafe(SetKapiDataShoots(sh, ns, pod, uid, labels, url),
                                        ws, ns, pod, KapiEventCreate)

\* Mutant: the event is raised after the record is deleted
RemoveKapiDataEventsAfterDelete(sh, ws, ns, pod) ==
    IF HasKapi(sh, ns, pod)
    THEN notifyKapiWatchersThreadUnsafe(RemoveKapiDataShoots(sh, ns, pod), ws, ns, pod, KapiEventDelete)
    ELSE <<>>

\* The calls RemoveKapiData makes to the watchers: just before deleting
RemoveKapiDataEvents(sh, ws, ns, pod) ==
    IF HasKapi(sh, ns, pod)
    THEN notifyKapiWatchersThreadUnsafe(sh, ws, ns, pod, KapiEventDelete)
    ELSE <<>>

Targets == Namespaces \X Pods

IsRegistered(ws, w) == \E i \in 1..Len(ws) : ws[i] = w

\* The targets on record
Present(sh) == {x \in Targets : HasKapi(sh, x[1], x[2])}

\* The events a call to every registration delivers for target x
OnePerRegistration(ws, x, type) ==
    [i \in 1..Len(ws) |-> [w |-> ws[i], ns |-> x[1], pod |-> x[2], type |-> type, present |-> TRUE]]

\* What a recording watcher notes per registration: whether it asked for the existing
\* targets, the type of the last event it got for each target, and whether the events
\* of each target have alternated create, delete, create, ... so far
NewWatcherLog(replay) ==
    [replay |-> replay, alternates |-> TRUE, last |-> [x \in Targets |-> "none"]]

Recorded(entry, e) ==
    [entry EXCEPT !.alternates = /\ @
                                 /\ e.type = KapiEventCreate => entry.last[<<e.ns, e.pod>>] # KapiEventCreate
                                 /\ e.type = KapiEventDelete => entry.last[<<e.ns, e.pod>>] = KapiEventCreate,
                  !.last[<<e.ns, e.pod>>] = e.type]

RECURSIVE RecordedAll(_, _)
RecordedAll(entry, es) ==
    IF es = <<>> THEN entry ELSE RecordedAll(Recorded(entry, Head(es)), Tail(es))

\* The logs after the watchers were called with es, es[i] going to registration i
WatchersCalled(logs, es) ==
    IF es = <<>> THEN logs ELSE [i \in 1..Len(logs) |-> Recorded(logs[i], es[i])]

NoPending == [active |-> FALSE, ns |-> "", pod |-> "", count |-> 0, t |-> ZeroTime]

\* What the last step did: the operation, its boolean outcome (created / existed /
\* accepted ...), the time and value it was given or returned, and the target
\* <<namespace, pod>> it was called for
OpOn(name, ok, t, val, arg) == [name |-> name, ok |-> ok, t |-> t, val |-> val, arg |-> arg]

OpV(name, ok, t, val) == OpOn(name, ok, t, val, <<>>)

OpT(name, ok, ns, pod) == OpOn(name, ok, ZeroTime, 0, <<ns, pod>>)

\* A SetKapiData call: val holds the three fields it was given
OpSet(ok, ns, pod, uid, labels, url) ==
    OpOn("SetKapiData", ok, ZeroTime, <<uid, labels, url>>, <<ns, pod>>)

Op(name, ok) == OpV(name, ok, ZeroTime, 0)

\* ------------------------------------------------------------------------
\* HA service: the Endpoints object and the API server's answers
\* ------------------------------------------------------------------------
Replicas == {"r1", "r2"}
NoReplica == "none"
ProtocolTCP == "TCP"
servingPort == "servingPort"
\* cleanUpServiceEndpoints gives up after this many attempts (scaled)
CleanupAttempts == 2

NoEndpoints == [exists |-> FALSE, UID |-> 0, ResourceVersion |-> 0, Subsets |-> <<>>]

\* The subsets setEndpoints writes: one address, servingIPAddress of replica r (the
\* replica's name stands for its IP address), and one port
OurSubsets(r) ==
    <<[Addresses |-> <<r>>, Ports |-> <<[Port |-> servingPort, Protocol |-> ProtocolTCP]>>]>>

\* Mutant: the address is added to the subset found instead of replacing it
setEndpointsObjectAppending(seen, r) ==
    [seen EXCEPT !.Subsets = IF @ = <<>> THEN OurSubsets(r)
                             ELSE <<[Addresses |-> Append(@[1].Addresses, r), Ports |-> @[1].Ports]>>]

\* setEndpoints: the object sent with Update is the one Get returned (an object
\* without UID and resource version after NotFound), its Subsets overwritten
setEndpointsObject(seen, r) == [seen EXCEPT !.Subsets = OurSubsets(r)]

isEndpointStillPointingToOurReplica(ep, r) ==
    /\ Len(ep.Subsets) = 1
    /\ Len(ep.Subsets[1].Addresses) = 1
    /\ ep.Subsets[1].Addresses[1] = r
    /\ Len(ep.Subsets[1].Ports) = 1
    /\ ep.Subsets[1].Ports[1].Port = servingPort
    /\ ep.Subsets[1].Ports[1].Protocol = ProtocolTCP

\* client.Update(obj) at the API server, ep being the stored object. An Endpoints PUT
\* creates a missing object; a PUT without resource version is unconditional; a PUT
\* with a resource version other than the stored one is a conflict. Whether a PUT
\* carrying a resource version creates a missing object is left open.
UpdateOutcomes(ep, obj) ==
    IF ep.exists
    THEN IF obj.ResourceVersion = 0 \/ obj.ResourceVersion = ep.ResourceVersion
         THEN {"updated"} ELSE {"Conflict"}
    ELSE IF obj.ResourceVersion = 0 THEN {"created"} ELSE {"created", "Conflict"}

UpdateApplied(ep, obj, outcome, seq) ==
    IF outcome = "updated"
    THEN [exists |-> TRUE, UID |-> ep.UID, ResourceVersion |-> seq + 1, Subsets |-> obj.Subsets]
    ELSE IF outcome = "created"
    THEN [exists |-> TRUE, UID |-> seq + 1, ResourceVersion |-> seq + 1, Subsets |-> obj.Subsets]
    ELSE ep

\* Mutant: the delete carries no precondition
DeleteUnconditional(ep, seen) == TRUE

\* client.Preconditions{UID: &endpoints.UID, ResourceVersion: &endpoints.ResourceVersion}
DeletePreconditionsHold(ep, seen) ==
    /\ ep.UID = seen.UID
    /\ ep.ResourceVersion = seen.ResourceVersion

\* client.Delete(seen, preconditions) at the API server
DeleteOutcome(ep, seen) ==
    IF ~ep.exists THEN "NotFound"
    ELSE IF DeletePreconditionsHold(ep, seen) THEN "deleted"
    ELSE "Conflict"

IdleReplica == [pc |-> "idle", cancelled |-> FALSE, seen |-> NoEndpoints, attempt |-> 0]

HaOp(name, ok, r, result) == OpV(name, ok, ZeroTime, [who |-> r, result |-> result])

\* ------------------------------------------------------------------------
\* Scraper: the size of a shift
\* ------------------------------------------------------------------------
minShiftWorkerCount == 1
maxShiftWorkerCount == 3
maxActiveWorkerCount == 4

NewScraper ==
    [lastShiftStartTime |-> ZeroTime, lastShiftWorkerCount |-> 1,
     lastShiftScrapeTargetCount |-> 0, activeWorkerCount |-> 0]

\* The worker goroutines one Start call spawns in the model: one shift of two
\* workers, or two shifts of one worker
MaxSpawned == 2
WorkerIds == 1..MaxSpawned

NoTarget == [Namespace |-> "", PodName |-> ""]

\* A goroutine not yet started. pc: the position in workerProc / ScrapeQueue / scrape;
\* ctxErrAtStart: ctx.Err() != nil when the goroutine was started; scrapes: the
\* calls of scrape it has made
NoWorker == [pc |-> "none", target |-> NoTarget, ctxErrAtStart |-> FALSE, scrapes |-> 0]

\* No response read yet
NoResponse == [body |-> <<>>, pc |-> "none", kind |-> "", value |-> 0]

\* Start not yet called: pc is Start's position, done is ctx.Done() being closed,
\* waitGroup is the workerWaitGroup counter, queueClosed is queue.Close() called
NewStartRun ==
    [pc |-> "new", done |-> FALSE, waitGroup |-> 0, queueClosed |-> FALSE,
     spawned |-> 0, worker |-> [i \in WorkerIds |-> NoWorker]]

\* int(NaN) is implementation-specific in Go: the lowest int, 0 or the highest int
IntOfNaN == {-MaxDuration, 0, MaxDuration}

\* math.Ceil(a / b) for a >= 0, b > 0
CeilDiv(a, b) == (a + b - 1) \div b

\* int(math.Ceil(float64(thisTargets) / lastShiftWorkerThroughput)), the throughput
\* being float64(lastTargets - unprocessed) / float64(lastWorkers), raised to 1 if
\* below 1. A zero lastWorkers makes the throughput +Inf, -Inf or NaN.
EstimatedWorkerCounts(lastTargets, lastWorkers, unprocessed, thisTargets) ==
    LET done == lastTargets - unprocessed
    IN IF lastWorkers = 0
       THEN IF done = 0 THEN IntOfNaN
            ELSE IF done > 0 THEN {0}
            ELSE {thisTargets}
       ELSE IF \/ lastWorkers > 0 /\ done < lastWorkers
               \/ lastWorkers < 0 /\ done > lastWorkers
       THEN {thisTargets}
       ELSE IF lastWorkers > 0
       THEN {CeilDiv(thisTargets * lastWorkers, done)}
       ELSE {CeilDiv(thisTargets * (-lastWorkers), -done)}

\* thisShift.WorkerCount: the estimate, or the decayed count, then the clamps
ShiftWorkerCount(s, unprocessed, estimate) ==
    LET want == IF unprocessed > 0
                THEN IF estimate > 2 * s.lastShiftWorkerCount
                     THEN 2 * s.lastShiftWorkerCount ELSE estimate
                ELSE s.lastShiftWorkerCount - 1
        allowedPerTotalMax == maxActiveWorkerCount - s.activeWorkerCount
    IN IF want < minShiftWorkerCount THEN minShiftWorkerCount
       ELSE Min(Min(want, maxShiftWorkerCount), allowedPerTotalMax)

\* ------------------------------------------------------------------------
\* Scrape queue: targets and events
\* ------------------------------------------------------------------------
QueueWatcher == "queue"
\* capacity of the q.updateQueue channel (scaled)
UpdateQueueCap == 2

NoEvent == [ns |-> "", pod |-> "", type |-> ""]

kapiEvent(ns, pod, type) == [ns |-> ns, pod |-> pod, type |-> type]

scrapeTarget(ns, pod) == [Namespace |-> ns, PodName |-> pod]

NoCandidate == [target |-> scrapeTarget("", ""), now |-> ZeroTime]

\* Index of the first list element for the pod, 0 if there is none
TargetIndex(ts, ns, pod) ==
    IF \E i \in 1..Len(ts) : ts[i] = scrapeTarget(ns, pod)
    THEN CHOOSE i \in 1..Len(ts) :
            ts[i] = scrapeTarget(ns, pod) /\ \A j \in 1..(i-1) : ts[j] # scrapeTarget(ns, pod)
    ELSE 0

\* Mutant: delete events are not acted upon
processSingleKapiEventNoDelete(ts, e) ==
    IF e.type = KapiEventCreate THEN <<scrapeTarget(e.ns, e.pod)>> \o ts ELSE ts

\* processSingleKapiEvent, the list: PushFront on create, the first match removed on delete
processSingleKapiEventTargets(ts, e) ==
    IF e.type = KapiEventCreate THEN <<scrapeTarget(e.ns, e.pod)>> \o ts
    ELSE IF e.type = KapiEventDelete /\ TargetIndex(ts, e.ns, e.pod) # 0
    THEN RemoveAt(ts, TargetIndex(ts, e.ns, e.pod))
    ELSE ts

\* kapi.LastMetricsScrapeTime.After(dueAtTime.Add(-q.scrapePeriod)); the cutoff of a
\* zero dueAtTime lies before every time.Time
AfterCutoff(last, dueAtTime) ==
    IF dueAtTime = ZeroTime THEN TRUE
    ELSE last # ZeroTime /\ last > dueAtTime - ScrapePeriod

RECURSIVE DueCountFrom(_, _, _, _)
\* DueCount's loop over the list
DueCountFrom(ts, sh, dueAtTime, excludeUnscraped) ==
    IF ts = <<>> THEN 0
    ELSE LET t == Head(ts)
         IN IF ~HasKapi(sh, t.Namespace, t.PodName)
            THEN DueCountFrom(Tail(ts), sh, dueAtTime, excludeUnscraped)
            ELSE LET kapi == getKapiDataThreadUnsafe(sh, t.Namespace, t.PodName)
                 IN IF AfterCutoff(kapi.LastMetricsScrapeTime, dueAtTime) THEN 0
                    ELSE (IF ~excludeUnscraped \/ kapi.LastMetricsScrapeTime # ZeroTime THEN 1 ELSE 0)
                         + DueCountFrom(Tail(ts), sh, dueAtTime, excludeUnscraped)

\* GetNext: !now.Before(lastScrapeTime.Add(q.scrapePeriod))
EagerToProcess(last, t) == last = ZeroTime \/ t >= last + ScrapePeriod

\* ------------------------------------------------------------------------
\* Specification SpecSamples: sample bookkeeping of one target under
\* concurrent SetKapiMetrics callers
\* ------------------------------------------------------------------------
InitCallers ==
    /\ labelHeap = <<>>
    /\ now = 1
    /\ setPending = [c \in Callers |-> NoPending]
    /\ snapshot = <<>>
    /\ callerMap = NilMap
    /\ lastOp = Op("init", TRUE)
    /\ notified = <<>>
    /\ removedOk = {}
    /\ watcherLog = <<>>
    /\ callerLog = NewCallerLog("mixed")
    /\ getNextLog = NewGetNextLog
    /\ closeCalls = NoCloseCalls

\* No replica started, no Endpoints object
InitHAService ==
    /\ leader = NoReplica
    /\ ha = [r \in Replicas |-> IdleReplica]
    /\ endpoints = NoEndpoints
    /\ endpointsCache = NoEndpoints
    /\ apiSeq = 0

InitScraper == sc = NewScraper /\ startRun = NewStartRun /\ response = NoResponse

\* The fields of a scrapeQueueImpl whose worker waits for the first event
InitScrapeQueue ==
    /\ targets = <<>>
    /\ sendBlocked = NoEvent
    /\ workerEvent = NoEvent
    /\ workerExited = FALSE
    /\ targetLock = "free"
    /\ candidate = NoCandidate
    /\ closePc = "open"

InitRegistry ==
    /\ shoots = [ns \in Namespaces |-> NoShootData]
    /\ kapiWatchers = <<>>
    /\ InitCallers
    /\ pm = newPacemaker(0, 0)
    /\ InitHAService
    /\ InitScraper
    /\ InitScrapeQueue
    /\ updateQueue = <<>>

Tick ==
    /\ now < MaxTime
    /\ now' = now + 1
    /\ lastOp' = Op("Tick", TRUE)
    /\ notified' = <<>>
    /\ UNCHANGED <<shoots, kapiWatchers, labelHeap, setPending, snapshot, callerMap, removedOk, watcherLog>>
    /\ UNCHANGED restOfReg

\* SetKapiData(ns, pod, uid, labels, url); labels is a map reference (NilMap: nil)
SetKapiData(ns, pod, uid, labels, url) ==
    /\ shoots' = SetKapiDataShoots(shoots, ns, pod, uid, labels, url)
    /\ notified' = SetKapiDataEvents(shoots, kapiWatchers, ns, pod, uid, labels, url)
    /\ watcherLog' = WatchersCalled(watcherLog, notified')
    /\ lastOp' = OpSet(~HasKapi(shoots, ns, pod), ns, pod, uid, labels, url)
    /\ UNCHANGED <<kapiWatchers, labelHeap, now, setPending, snapshot, callerMap, removedOk>>
    /\ UNCHANGED restOfReg

RemoveKapiData(ns, pod) ==
    /\ shoots' = RemoveKapiDataShoots(shoots, ns, pod)
    /\ notified' = RemoveKapiDataEvents(shoots, kapiWatchers, ns, pod)
    /\ watcherLog' = WatchersCalled(watcherLog, notified')
    /\ lastOp' = OpT("RemoveKapiData", HasKapi(shoots, ns, pod), ns, pod)
    /\ UNCHANGED <<kapiWatchers, labelHeap, now, setPending, snapshot, callerMap, removedOk>>
    /\ UNCHANGED restOfReg

\* SetKapiMetrics, first statement: now := TimeNow(), before reg.lock is taken
SetKapiMetricsBegin(c, ns, pod, count) ==
    /\ ~setPending[c].active
    /\ setPending' = [setPending EXCEPT ![c] =
                        [active |-> TRUE, ns |-> ns, pod |-> pod, count |-> count, t |-> now]]
    /\ lastOp' = Op("SetKapiMetricsBegin", TRUE)
    /\ notified' = <<>>
    /\ UNCHANGED <<shoots, kapiWatchers, labelHeap, now, snapshot, callerMap, removedOk, watcherLog>>
    /\ UNCHANGED restOfReg

\* SetKapiMetrics, the critical section
SetKapiMetricsLocked(c) ==
    /\ setPending[c].active
    /\ shoots' = SetKapiMetricsShoots(shoots, setPending[c].ns, setPending[c].pod,
                                      setPending[c].count, setPending[c].t)
    /\ setPending' = [setPending EXCEPT ![c] = NoPending]
    /\ lastOp' = OpOn("SetKapiMetrics",
                       /\ HasKapi(shoots, setPending[c].ns, setPending[c].pod)
                       /\ ~SampleIgnored(getKapiDataThreadUnsafe(shoots, setPending[c].ns, setPending[c].pod),
                                         setPending[c].count, setPending[c].t),
                       setPending[c].t, setPending[c].count,
                       \* the faults counted when the call took the lock
                       <<IF HasKapi(shoots, setPending[c].ns, setPending[c].pod)
                         THEN getKapiDataThreadUnsafe(shoots, setPending[c].ns, setPending[c].pod).FaultCount
                         ELSE 0>>)
    /\ notified' = <<>>
    /\ UNCHANGED <<kapiWatchers, labelHeap, now, snapshot, callerMap, removedOk, watcherLog>>
    /\ UNCHANGED restOfReg

NotifyKapiMetricsFault(ns, pod) ==
    /\ HasKapi(shoots, ns, pod) => getKapiDataThreadUnsafe(shoots, ns, pod).FaultCount < MaxFault
    /\ shoots' = NotifyKapiMetricsFaultShoots(shoots, ns, pod)
    /\ lastOp' = OpOn("NotifyKapiMetricsFault", HasKapi(shoots, ns, pod), ZeroTime,
                      NotifyKapiMetricsFaultResult(shoots, ns, pod), <<ns, pod>>)
    /\ notified' = <<>>
    /\ UNCHANGED <<kapiWatchers, labelHeap, now, setPending, snapshot, callerMap, removedOk, watcherLog>>
    /\ UNCHANGED restOfReg

SamplePod == "p1"

NextSamples ==
    \/ Tick
    \/ SetKapiData("ns1", SamplePod, "u1", NilMap, "url1")
    \/ RemoveKapiData("ns1", SamplePod)
    \/ \E c \in Callers, count \in -1..MaxCount : SetKapiMetricsBegin(c, "ns1", SamplePod, count)
    \/ \E c \in Callers : SetKapiMetricsLocked(c)
    \/ NotifyKapiMetricsFault("ns1", SamplePod)

SpecSamples == InitRegistry /\ [][NextSamples]_vars

KapiOf(ns, pod) == getKapiDataThreadUnsafe(shoots, ns, pod)

\* C7: SetKapiMetrics(ns, pod, c), having read the clock value t, accepts the sample
\* iff c >= the stored new counter and t - (stored new time) >= MinSampleGap; on
\* acceptance (old, new) becomes (previous new, (c, t)); otherwise both samples stay.
C7_SetSampleAcceptRule ==
    [][\A c \in Callers :
         (setPending[c].active /\ ~setPending'[c].active
            /\ HasKapi(shoots, setPending[c].ns, setPending[c].pod))
         => LET p == setPending[c]
                k == KapiOf(p.ns, p.pod)
                k2 == getKapiDataThreadUnsafe(shoots', p.ns, p.pod)
            IN IF p.count >= k.TotalRequestCountNew
                  /\ (k.MetricsTimeNew = ZeroTime \/ p.t - k.MetricsTimeNew >= MinSampleGap)
               THEN /\ k2.TotalRequestCountNew = p.count
                    /\ k2.MetricsTimeNew = p.t
                    /\ k2.TotalRequestCountOld = k.TotalRequestCountNew
                    /\ k2.MetricsTimeOld = k.MetricsTimeNew
               ELSE /\ k2.TotalRequestCountNew = k.TotalRequestCountNew
                    /\ k2.MetricsTimeNew = k.MetricsTimeNew
                    /\ k2.TotalRequestCountOld = k.TotalRequestCountOld
                    /\ k2.MetricsTimeOld = k.MetricsTimeOld]_vars

\* A second sample has just been accepted and the first one shifted into `old`
C7_Witness ==
    /\ lastOp.name = "SetKapiMetrics" /\ lastOp.ok
    /\ HasKapi(shoots, "ns1", SamplePod)
    /\ KapiOf("ns1", SamplePod).MetricsTimeOld # ZeroTime
    /\ KapiOf("ns1", SamplePod).MetricsTimeNew = lastOp.t
    /\ KapiOf("ns1", SamplePod).TotalRequestCountNew = lastOp.val

\* C8: in every registry state the stored pair is ordered: old.time < new.time once a
\* sample was accepted (old.time <= new.time always) and old.counter <= new.counter,
\* so the rate computed from the pair is never negative; this holds although
\* concurrent SetKapiMetrics calls read the clock before taking the lock.
C8_SamplesAdvance ==
    \A ns \in Namespaces : \A i \in 1..Len(shoots[ns].KapiData) :
        LET k == shoots[ns].KapiData[i]
        IN /\ k.MetricsTimeOld <= k.MetricsTimeNew
           /\ (k.MetricsTimeNew # ZeroTime => k.MetricsTimeOld < k.MetricsTimeNew)
           /\ k.TotalRequestCountOld <= k.TotalRequestCountNew
           /\ k.TotalRequestCountNew - k.TotalRequestCountOld >= 0

\* A call that read the clock earlier entered the critical section after a call that
\* read it later had been accepted, and was ignored
C8_Witness ==
    /\ lastOp.name = "SetKapiMetrics" /\ ~lastOp.ok
    /\ HasKapi(shoots, "ns1", SamplePod)
    /\ lastOp.t < KapiOf("ns1", SamplePod).MetricsTimeNew
    /\ lastOp.val >= KapiOf("ns1", SamplePod).TotalRequestCountNew
    /\ KapiOf("ns1", SamplePod).MetricsTimeOld # ZeroTime

\* C20: NotifyKapiMetricsFault on a target on record adds exactly one to its
\* FaultCount, returns the new count and touches nothing else; on an unknown target
\* it returns -1 and changes nothing. A sample accepted by SetKapiMetrics leaves
\* FaultCount at zero.
C20_FaultCountRule ==
    [][/\ lastOp'.name = "NotifyKapiMetricsFault"
          => IF HasKapi(shoots, lastOp'.arg[1], lastOp'.arg[2])
             THEN LET k == KapiOf(lastOp'.arg[1], lastOp'.arg[2])
                      k2 == getKapiDataThreadUnsafe(shoots', lastOp'.arg[1], lastOp'.arg[2])
                  IN /\ k2.FaultCount = k.FaultCount + 1
                     /\ lastOp'.val = k2.FaultCount
                     /\ k2 = [k EXCEPT !.FaultCount = k2.FaultCount]
                     /\ shoots' = WithKapi(shoots, lastOp'.arg[1], lastOp'.arg[2], k2)
             ELSE /\ lastOp'.val = -1
                  /\ shoots' = shoots
       /\ \A c \in Callers :
             (setPending[c].active /\ ~setPending'[c].active /\ lastOp'.ok)
             => getKapiDataThreadUnsafe(shoots', setPending[c].ns, setPending[c].pod).FaultCount = 0]_vars

\* The second fault in a row was counted for a target that had a sample accepted
C20_Witness ==
    /\ lastOp.name = "NotifyKapiMetricsFault" /\ lastOp.ok
    /\ lastOp.val = 2
    /\ KapiOf("ns1", SamplePod).FaultCount = 2
    /\ KapiOf("ns1", SamplePod).MetricsTimeNew # ZeroTime

\* A sample was accepted and the faults counted before it are forgotten
C20_WitnessReset ==
    /\ lastOp.name = "SetKapiMetrics" /\ lastOp.ok
    /\ KapiOf("ns1", SamplePod).FaultCount = 0
    /\ KapiOf("ns1", SamplePod).MetricsTimeOld # ZeroTime

\* ------------------------------------------------------------------------
\* Specification SpecAlias: what callers share with the registry through the
\* references they pass in and get back
\* ------------------------------------------------------------------------
EmptyLabels == [key \in LabelKeys |-> NoVal]

\* The caller builds a new map[string]string
CallerMakesMap(m) ==
    /\ Len(labelHeap) < MaxRefs
    /\ labelHeap' = Append(labelHeap, m)
    /\ callerMap' = Len(labelHeap) + 1
    /\ lastOp' = Op("CallerMakesMap", TRUE)
    /\ notified' = <<>>
    /\ UNCHANGED <<shoots, kapiWatchers, now, setPending, snapshot, removedOk, watcherLog>>
    /\ UNCHANGED restOfReg

\* GetKapiData: result := *pkapi; return &result
GetKapiDataResult(sh, ns, pod) ==
    IF HasKapi(sh, ns, pod) THEN <<getKapiDataThreadUnsafe(sh, ns, pod)>> ELSE <<>>

GetKapiData(ns, pod) ==
    /\ snapshot' = GetKapiDataResult(shoots, ns, pod)
    /\ lastOp' = OpT("GetKapiData", HasKapi(shoots, ns, pod), ns, pod)
    /\ notified' = <<>>
    /\ UNCHANGED <<shoots, kapiWatchers, labelHeap, now, setPending, callerMap, removedOk, watcherLog>>
    /\ UNCHANGED restOfReg

\* dataSourceAdapter.GetShootKapis: x := *shoot.KapiData[i] for every i
GetShootKapisResult(sh, ns) ==
    IF sh[ns].exists THEN [i \in 1..Len(sh[ns].KapiData) |-> sh[ns].KapiData[i]] ELSE <<>>

GetShootKapis(ns) ==
    /\ snapshot' = GetShootKapisResult(shoots, ns)
    /\ lastOp' = Op("GetShootKapis", shoots[ns].exists)
    /\ notified' = <<>>
    /\ UNCHANGED <<shoots, kapiWatchers, labelHeap, now, setPending, callerMap, removedOk, watcherLog>>
    /\ UNCHANGED restOfReg

\* The map references a caller holds: the one it passed in and those of its snapshot
HeldRefs == ({callerMap} \cup {snapshot[i].PodLabels : i \in 1..Len(snapshot)}) \ {NilMap}

\* The caller writes m[key] = val, or delete(m, key) for val = NoVal, through a
\* reference it holds
CallerWritesMap(ref, key, val) ==
    /\ ref \in HeldRefs
    /\ labelHeap' = [labelHeap EXCEPT ![ref][key] = val]
    /\ lastOp' = Op("CallerWritesMap", ref \in {snapshot[i].PodLabels : i \in 1..Len(snapshot)})
    /\ notified' = <<>>
    /\ UNCHANGED <<shoots, kapiWatchers, now, setPending, snapshot, callerMap, removedOk, watcherLog>>
    /\ UNCHANGED restOfReg

NextAlias ==
    \/ \E m \in [LabelKeys -> LabelVals \cup {NoVal}] : CallerMakesMap(m)
    \/ \E pod \in Pods : SetKapiData("ns1", pod, "u1", callerMap, "url1")
    \/ \E pod \in Pods : RemoveKapiData("ns1", pod)
    \/ \E pod \in Pods : GetKapiData("ns1", pod)
    \/ GetShootKapis("ns1")
    \/ \E ref \in 1..MaxRefs, key \in LabelKeys, val \in LabelVals \cup {NoVal} :
          CallerWritesMap(ref, key, val)

SpecAlias == InitRegistry /\ [][NextAlias]_vars

\* A record as its holder reads it: the labels reference followed into the heap
ResolveKapi(k, heap) ==
    [k EXCEPT !.PodLabels = IF @ = NilMap THEN EmptyLabels ELSE heap[@]]

RegistryView ==
    [ns \in Namespaces |->
        [i \in 1..Len(shoots[ns].KapiData) |-> ResolveKapi(shoots[ns].KapiData[i], labelHeap)]]

SnapshotView == [i \in 1..Len(snapshot) |-> ResolveKapi(snapshot[i], labelHeap)]

\* C1: every snapshot a registry read returns is a deep copy: a caller's write to a
\* labels map it holds (its snapshot's, or the one it passed to SetKapiData) changes
\* nothing the registry returns later, and no registry operation changes the content
\* of a snapshot already returned.
C1_SnapshotsAreDeepCopies ==
    [][/\ lastOp'.name = "CallerWritesMap" => RegistryView' = RegistryView
       /\ lastOp'.name \in {"SetKapiData", "RemoveKapiData"} => SnapshotView' = SnapshotView]_vars

\* ------------------------------------------------------------------------
\* Specification SpecTenant: the per-shoot records under target, secret and
\* certificate operations
\* ------------------------------------------------------------------------
SetShootAuthSecret(ns, authSecret) ==
    /\ shoots' = SetShootAuthSecretShoots(shoots, ns, authSecret)
    /\ lastOp' = Op("SetShootAuthSecret", shoots[ns].exists /\ ~shoots'[ns].exists)
    /\ notified' = <<>>
    /\ UNCHANGED <<kapiWatchers, labelHeap, now, setPending, snapshot, callerMap, removedOk, watcherLog>>
    /\ UNCHANGED restOfReg

SetShootCACertificate(ns, certificate) ==
    /\ shoots' = SetShootCACertificateShoots(shoots, ns, certificate)
    /\ lastOp' = Op("SetShootCACertificate", shoots[ns].exists /\ ~shoots'[ns].exists)
    /\ notified' = <<>>
    /\ UNCHANGED <<kapiWatchers, labelHeap, now, setPending, snapshot, callerMap, removedOk, watcherLog>>
    /\ UNCHANGED restOfReg

\* GetShootAuthSecret and GetShootCACertificate: reg.shoots[shootNamespace] is read
GetShootAuthSecret(ns) ==
    /\ lastOp' = Op("GetShootAuthSecret", shoots[ns].AuthSecret # "")
    /\ notified' = <<>>
    /\ UNCHANGED <<shoots, kapiWatchers, labelHeap, now, setPending, snapshot, callerMap, removedOk, watcherLog>>
    /\ UNCHANGED restOfReg

GetShootCACertificate(ns) ==
    /\ lastOp' = Op("GetShootCACertificate", shoots[ns].CACertPool # NoCA)
    /\ notified' = <<>>
    /\ UNCHANGED <<shoots, kapiWatchers, labelHeap, now, setPending, snapshot, callerMap, removedOk, watcherLog>>
    /\ UNCHANGED restOfReg

SetKapiLastScrapeTime(ns, pod, value) ==
    /\ shoots' = SetKapiLastScrapeTimeShoots(shoots, ns, pod, value)
    /\ lastOp' = OpOn("SetKapiLastScrapeTime", HasKapi(shoots, ns, pod), value, 0, <<ns, pod>>)
    /\ notified' = <<>>
    /\ UNCHANGED <<kapiWatchers, labelHeap, now, setPending, snapshot, callerMap, removedOk, watcherLog>>
    /\ UNCHANGED restOfReg

TenantCaller == "c1"

\* The target the scraper and the readers work on; it may or may not be on record
ScrapedPod == "p2"

NextTenant ==
    \/ \E pod \in Pods : SetKapiData("ns1", pod, "u1", NilMap, "url1")
    \/ \E pod \in Pods : RemoveKapiData("ns1", pod)
    \/ \E authSecret \in {"", "token1"} : SetShootAuthSecret("ns1", authSecret)
    \/ \E certificate \in Certificates : SetShootCACertificate("ns1", certificate)
    \/ GetShootAuthSecret("ns1")
    \/ GetShootCACertificate("ns1")
    \/ GetKapiData("ns1", ScrapedPod)
    \/ SetKapiMetricsBegin(TenantCaller, "ns1", ScrapedPod, 1)
    \/ SetKapiMetricsLocked(TenantCaller)
    \/ SetKapiLastScrapeTime("ns1", ScrapedPod, now)
    \/ NotifyKapiMetricsFault("ns1", ScrapedPod)

SpecTenant == InitRegistry /\ [][NextTenant]_vars

\* The shoot record holds a secret, a certificate pool or a target
ShootHoldsData(sd) == sd.AuthSecret # "" \/ sd.CACertPool # NoCA \/ Len(sd.KapiData) > 0

\* C15: after any sequence of SetKapiData, RemoveKapiData, SetShootAuthSecret and
\* SetShootCACertificate calls a shoot record exists iff it holds a non-empty secret, a
\* certificate pool or at least one target: the operation that empties the record
\* removes it, and no read or operation on an unknown target creates one.
C15_ShootRecordIffData ==
    \A ns \in Namespaces : shoots[ns].exists <=> ShootHoldsData(shoots[ns])

\* A record that held only a secret, a pool or one target was removed by the
\* operation that took its last piece of data
C15_Witness ==
    /\ lastOp.name \in {"SetShootAuthSecret", "SetShootCACertificate", "RemoveKapiData"}
    /\ lastOp.ok
    /\ ~shoots["ns1"].exists

\* ------------------------------------------------------------------------
\* Specification SpecUpsert: SetKapiData on targets that carry samples, scrape
\* bookkeeping and shoot-level data, with watchers listening
\* ------------------------------------------------------------------------
UpsertWatcher(w) ==
    /\ Len(kapiWatchers) < MaxWatcherRegs
    /\ ~IsRegistered(kapiWatchers, w)
    /\ kapiWatchers' = Append(kapiWatchers, w)
    /\ watcherLog' = Append(watcherLog, NewWatcherLog(FALSE))
    /\ notified' = <<>>
    /\ lastOp' = Op("AddKapiWatcher", FALSE)
    /\ UNCHANGED <<shoots, labelHeap, now, setPending, snapshot, callerMap, removedOk>>
    /\ UNCHANGED restOfReg

UpsertLabels ==
    /\ labelHeap = <<>>
    /\ CallerMakesMap(EmptyLabels)

NextUpsert ==
    \/ \E w \in Watchers : UpsertWatcher(w)
    \/ UpsertLabels
    \/ \E pod \in Pods : SetKapiData("ns1", pod, "u1", NilMap, "url1")
    \/ SetKapiData("ns1", ScrapedPod, "u2", callerMap, "url2")
    \/ SetShootAuthSecret("ns1", "token1")
    \/ SetShootCACertificate("ns1", "pem1")
    \/ SetKapiMetricsBegin(TenantCaller, "ns1", ScrapedPod, 1)
    \/ SetKapiMetricsLocked(TenantCaller)
    \/ SetKapiLastScrapeTime("ns1", ScrapedPod, now)
    \/ NotifyKapiMetricsFault("ns1", ScrapedPod)

SpecUpsert == InitRegistry /\ [][NextUpsert]_vars

\* The three fields SetKapiData is given
WithIdentity(k, uid, labels, url) ==
    [k EXCEPT !.PodUID = uid, !.PodLabels = labels, !.MetricsUrl = url]

\* C18: SetKapiData on a target not on record creates it and calls every registration
\* once with a create event; on a target on record it calls nobody and changes only
\* PodUID, PodLabels and MetricsUrl: both samples, LastMetricsScrapeTime, FaultCount,
\* the other targets and the shoot's AuthSecret and CACertPool stay as they are.
C18_SetKapiDataCreatesOrUpdates ==
    [][lastOp'.name = "SetKapiData"
       => LET ns == lastOp'.arg[1]
              pod == lastOp'.arg[2]
              uid == lastOp'.val[1]
              labels == lastOp'.val[2]
              url == lastOp'.val[3]
          IN IF lastOp'.arg \in Present(shoots)
             THEN /\ ~lastOp'.ok
                  /\ notified' = <<>>
                  /\ shoots' = WithKapi(shoots, ns, pod, WithIdentity(KapiOf(ns, pod), uid, labels, url))
             ELSE /\ lastOp'.ok
                  /\ notified' = OnePerRegistration(kapiWatchers, lastOp'.arg, KapiEventCreate)
                  /\ Present(shoots') = Present(shoots) \cup {lastOp'.arg}
                  /\ getKapiDataThreadUnsafe(shoots', ns, pod)
                        = WithIdentity(NewKapiData(ns, pod), uid, labels, url)
                  /\ \A x \in Present(shoots) :
                        getKapiDataThreadUnsafe(shoots', x[1], x[2]) = KapiOf(x[1], x[2])
                  /\ shoots'[ns].AuthSecret = shoots[ns].AuthSecret
                  /\ shoots'[ns].CACertPool = shoots[ns].CACertPool]_vars

\* The identity of a target with two samples' worth of bookkeeping, a counted fault
\* and shoot-level data was rewritten while two registrations were listening
C18_Witness ==
    /\ lastOp.name = "SetKapiData" /\ ~lastOp.ok
    /\ lastOp.arg = <<"ns1", ScrapedPod>>
    /\ lastOp.val = <<"u2", 1, "url2">>
    /\ Len(kapiWatchers) = 2
    /\ KapiOf("ns1", ScrapedPod).MetricsTimeNew # ZeroTime
    /\ KapiOf("ns1", ScrapedPod).LastMetricsScrapeTime # ZeroTime
    /\ KapiOf("ns1", ScrapedPod).FaultCount > 0
    /\ shoots["ns1"].AuthSecret # ""
    /\ shoots["ns1"].CACertPool # NoCA

\* A target was created while two registrations were listening
C18_WitnessCreate ==
    /\ lastOp.name = "SetKapiData" /\ lastOp.ok
    /\ Len(notified) = 2
    /\ shoots["ns1"].AuthSecret # ""

\* ------------------------------------------------------------------------
\* Specification SpecWatch: watcher registration and event delivery
\* ------------------------------------------------------------------------
RECURSIVE ReplayEvents(_, _, _)
\* AddKapiWatcher's loop over reg.shoots, the namespaces visited in the order nsOrder
ReplayEvents(sh, w, nsOrder) ==
    IF nsOrder = <<>> THEN <<>>
    ELSE [i \in 1..Len(sh[Head(nsOrder)].KapiData) |->
             [w |-> w, ns |-> Head(nsOrder), pod |-> sh[Head(nsOrder)].KapiData[i].podName,
              type |-> KapiEventCreate,
              present |-> HasKapi(sh, Head(nsOrder), sh[Head(nsOrder)].KapiData[i].podName)]]
         \o ReplayEvents(sh, w, Tail(nsOrder))

\* The orders in which Go may iterate over the keys of reg.shoots
NamespaceOrders ==
    {o \in [1..Cardinality(Namespaces) -> Namespaces] : \A ns \in Namespaces : \E i \in DOMAIN o : o[i] = ns}

AddKapiWatcherWatchers(ws, w) == Append(ws, w)

\* Mutant: the existing targets are announced whatever the flag says
AddKapiWatcherEventsAlways(sh, w, shouldNotifyOfPreexisting, nsOrder) ==
    ReplayEvents(sh, w, nsOrder)

\* The calls AddKapiWatcher makes to the new watcher before appending it
AddKapiWatcherEvents(sh, w, shouldNotifyOfPreexisting, nsOrder) ==
    IF shouldNotifyOfPreexisting THEN ReplayEvents(sh, w, nsOrder) ELSE <<>>

AddKapiWatcher(w, shouldNotifyOfPreexisting) ==
    /\ Len(kapiWatchers) < MaxWatcherRegs
    /\ \E o \in NamespaceOrders :
          notified' = AddKapiWatcherEvents(shoots, w, shouldNotifyOfPreexisting, o)
    /\ kapiWatchers' = AddKapiWatcherWatchers(kapiWatchers, w)
    /\ watcherLog' = Append(watcherLog, RecordedAll(NewWatcherLog(shouldNotifyOfPreexisting), notified'))
    /\ removedOk' = removedOk \ {w}
    /\ lastOp' = Op("AddKapiWatcher", shouldNotifyOfPreexisting)
    /\ UNCHANGED <<shoots, labelHeap, now, setPending, snapshot, callerMap>>
    /\ UNCHANGED restOfReg

\* The first index holding w is cut out of the slice
RemoveKapiWatcherWatchers(ws, w) ==
    IF IsRegistered(ws, w)
    THEN RemoveAt(ws, CHOOSE i \in 1..Len(ws) : ws[i] = w /\ \A j \in 1..(i-1) : ws[j] # w)
    ELSE ws

RemoveKapiWatcher(w) ==
    /\ kapiWatchers' = RemoveKapiWatcherWatchers(kapiWatchers, w)
    /\ watcherLog' = IF IsRegistered(kapiWatchers, w)
                     THEN RemoveAt(watcherLog, CHOOSE i \in 1..Len(kapiWatchers) : kapiWatchers[i] = w /\ \A j \in 1..(i-1) : kapiWatchers[j] # w)
                     ELSE watcherLog
    /\ removedOk' = IF IsRegistered(kapiWatchers, w) THEN removedOk \cup {w} ELSE removedOk
    /\ lastOp' = Op("RemoveKapiWatcher", IsRegistered(kapiWatchers, w))
    /\ notified' = <<>>
    /\ UNCHANGED <<shoots, labelHeap, now, setPending, snapshot, callerMap>>
    /\ UNCHANGED restOfReg

NextWatch ==
    \/ \E w \in Watchers, replay \in BOOLEAN : AddKapiWatcher(w, replay)
    \/ \E w \in Watchers : RemoveKapiWatcher(w)
    \/ \E pod \in Pods : SetKapiData("ns1", pod, "u1", NilMap, "url1")
    \/ \E pod \in Pods : RemoveKapiData("ns1", pod)

SpecWatch == InitRegistry /\ [][NextWatch]_vars

\* C9: after RemoveKapiWatcher(w) returned true, and until w is added again, no
\* registry operation delivers an event to w.
C9_NoEventAfterRemove ==
    \A i \in 1..Len(notified) : notified[i].w \notin removedOk

\* C16: RemoveKapiData on an existing target calls every registration once with a
\* delete event while the record is still on record, then removes it and returns true;
\* GetKapiData and GetShootKapis do not return the target from then on, until
\* SetKapiData creates it again. On an
\* absent target it returns false, delivers nothing and changes nothing.
C16_RemoveKapiDataNotifiesThenRemoves ==
    [][/\ lastOp'.name = "RemoveKapiData"
          => IF lastOp'.arg \in Present(shoots)
             THEN /\ lastOp'.ok
                  /\ notified' = OnePerRegistration(kapiWatchers, lastOp'.arg, KapiEventDelete)
                  /\ Present(shoots') = Present(shoots) \ {lastOp'.arg}
                  /\ GetKapiDataResult(shoots', lastOp'.arg[1], lastOp'.arg[2]) = <<>>
                  /\ \A i \in 1..Len(GetShootKapisResult(shoots', lastOp'.arg[1])) :
                        GetShootKapisResult(shoots', lastOp'.arg[1])[i].podName # lastOp'.arg[2]
             ELSE /\ ~lastOp'.ok
                  /\ notified' = <<>>
                  /\ shoots' = shoots
       /\ \A x \in Present(shoots') \ Present(shoots) :
             lastOp'.name = "SetKapiData" /\ lastOp'.arg = x]_vars

\* One of two targets was removed while two registrations were listening
C16_Witness ==
    /\ lastOp.name = "RemoveKapiData" /\ lastOp.ok
    /\ Len(notified) >= 2
    /\ \A i \in 1..Len(notified) : notified[i].type = KapiEventDelete /\ notified[i].present
    /\ lastOp.arg \notin Present(shoots)
    /\ Present(shoots) # {}

\* The events of es that are about target x
EventsFor(es, x) == {i \in 1..Len(es) : es[i].ns = x[1] /\ es[i].pod = x[2]}

\* C19: AddKapiWatcher with shouldNotifyOfPreexisting calls the new watcher, and nobody
\* else, exactly once with a create event for every target on record, in the same
\* step in which the handle is appended and the registry left as it is, and these
\* are the first events of the registration; without the flag it calls nobody.
C19_AddKapiWatcherReplaysOnce ==
    [][lastOp'.name = "AddKapiWatcher"
       => /\ shoots' = shoots
          /\ Len(kapiWatchers') = Len(kapiWatchers) + 1
          /\ SubSeq(kapiWatchers', 1, Len(kapiWatchers)) = kapiWatchers
          /\ SubSeq(watcherLog', 1, Len(watcherLog)) = watcherLog
          /\ IF lastOp'.ok
             THEN /\ \A i \in 1..Len(notified') :
                        /\ notified'[i].w = kapiWatchers'[Len(kapiWatchers')]
                        /\ notified'[i].type = KapiEventCreate
                        /\ <<notified'[i].ns, notified'[i].pod>> \in Present(shoots)
                  /\ \A x \in Present(shoots) : Cardinality(EventsFor(notified', x)) = 1
                  /\ watcherLog'[Len(watcherLog')] =
                        [replay |-> TRUE, alternates |-> TRUE,
                         last |-> [x \in Targets |-> IF x \in Present(shoots)
                                                    THEN KapiEventCreate ELSE "none"]]
             ELSE /\ notified' = <<>>
                  /\ watcherLog'[Len(watcherLog')] = NewWatcherLog(FALSE)]_vars

\* A second registration was added with replay while two targets were on record
C19_Witness ==
    /\ lastOp.name = "AddKapiWatcher" /\ lastOp.ok
    /\ Len(kapiWatchers) = 2
    /\ Len(notified) = 2
    /\ Cardinality(Present(shoots)) = 2

\* C17: for every registration that asked for the existing targets, the events of
\* each target came in the order of the registry changes and alternate create,
\* delete, create, ..., starting with create, and a target is on record exactly
\* when the last event delivered for it is a create.
C17_EventsAlternatePerTarget ==
    \A i \in 1..Len(watcherLog) :
        watcherLog[i].replay
        => /\ watcherLog[i].alternates
           /\ \A x \in Targets :
                 x \in Present(shoots) <=> watcherLog[i].last[x] = KapiEventCreate

\* A registration with replay has seen one target go and another one stay
C17_Witness ==
    \E i \in 1..Len(watcherLog) :
        /\ watcherLog[i].replay
        /\ watcherLog[i].alternates
        /\ \E x, y \in Targets :
              /\ watcherLog[i].last[x] = KapiEventDelete
              /\ watcherLog[i].last[y] = KapiEventCreate
        /\ lastOp.name = "SetKapiData" /\ lastOp.ok /\ notified # <<>>

\* ------------------------------------------------------------------------
\* Specification SpecPacemaker: a pacemaker driven by GetScrapePermission and
\* UpdateRate callers
\* ------------------------------------------------------------------------
InitPacemaker ==
    /\ InitRegistry

GetScrapePermission(isEagerToScrape) ==
    /\ callerLog.mode = "eager" => isEagerToScrape
    /\ callerLog.mode = "lazy" => ~isEagerToScrape
    /\ pm' = GetScrapePermissionPM(pm, now, isEagerToScrape)
    /\ callerLog' = CallerLogged(callerLog, now, isEagerToScrape, PMAllowed(pm, now, isEagerToScrape))
    /\ lastOp' = OpV("GetScrapePermission", PMAllowed(pm, now, isEagerToScrape), now, pm.currentDebt)
    /\ notified' = <<>>
    /\ UNCHANGED <<now, regData, getNextLog, closeCalls>>
    /\ UNCHANGED restOfPm

UpdateRate(minRate, rateDebtLimit) ==
    /\ pm' = UpdateRatePM(pm, minRate, rateDebtLimit)
    /\ lastOp' = OpV("UpdateRate", TRUE, now, pm.currentDebt)
    /\ notified' = <<>>
    /\ UNCHANGED <<now, regData, logVars>>
    /\ UNCHANGED restOfPm

NextPacemaker ==
    \/ Tick
    \/ \E eager \in BOOLEAN : GetScrapePermission(eager)
    \/ \E minRate \in 0..MaxDebtLimit, limit \in 0..MaxDebtLimit : UpdateRate(minRate, limit)

SpecPacemaker == InitPacemaker /\ [][NextPacemaker]_vars

\* C10 as stated: in every reachable pacemaker state 0 <= debt <= DebtLimit and
\* 0 <= surplus <= SurplusLimit.
C10_DebtSurplusWithinLimits ==
    /\ 0 <= pm.currentDebt /\ pm.currentDebt <= pm.RateDebtLimit * Unit
    /\ 0 <= pm.currentSurplus /\ pm.currentSurplus <= RateSurplusLimit * Unit

\* C10 amended: 0 <= surplus <= SurplusLimit and 0 <= debt hold in every reachable
\* state, and debt <= DebtLimit holds whenever GetScrapePermission returns; UpdateRate
\* does not clamp the stored debt.
C10_LimitsAfterGetScrapePermission ==
    /\ 0 <= pm.currentDebt
    /\ 0 <= pm.currentSurplus /\ pm.currentSurplus <= RateSurplusLimit * Unit
    /\ lastOp.name = "GetScrapePermission" => pm.currentDebt <= pm.RateDebtLimit * Unit

\* GetScrapePermission found the stored debt above a lowered limit and clamped it
C10_Witness ==
    /\ lastOp.name = "GetScrapePermission"
    /\ lastOp.val > pm.RateDebtLimit * Unit
    /\ pm.currentDebt <= pm.RateDebtLimit * Unit

\* C12: a GetScrapePermission(eager) call first applies the time D elapsed since the
\* previous call (debt := min(DebtLimit, debt + D*MinRate), surplus := max(0, surplus -
\* D*MaxRate)), then grants iff surplus <= SurplusLimit - 1 and (debt >= 1 or eager); a
\* grant takes 1 from the debt (floored at 0) and adds 1 to the surplus (capped at
\* SurplusLimit); a denial changes nothing beyond the time evolution.
C12_GetScrapePermissionRule ==
    [][lastOp'.name = "GetScrapePermission"
       => LET D == IF pm.lastUpdateTime = ZeroTime THEN 0 ELSE now - pm.lastUpdateTime
              debt == Min(pm.RateDebtLimit * Unit, pm.currentDebt + D * pm.MinRate)
              surplus == Max(0, pm.currentSurplus - D * pm.MaxRate)
              grant == /\ surplus <= (pm.RateSurplusLimit - 1) * Unit
                       /\ (debt >= Unit \/ callerLog'.eager)
          IN /\ lastOp'.ok = grant
             /\ pm'.currentDebt = IF grant THEN Max(0, debt - Unit) ELSE debt
             /\ pm'.currentSurplus = IF grant THEN Min(pm.RateSurplusLimit * Unit, surplus + Unit)
                                     ELSE surplus]_vars

\* An eager call was granted although the debt, positive, was below 1: the debt is
\* floored at 0
C12_Witness ==
    /\ lastOp.name = "GetScrapePermission" /\ lastOp.ok /\ callerLog.eager
    /\ lastOp.val > 0 /\ pm.currentDebt = 0
    /\ pm.currentSurplus > 0 /\ pm.lastUpdateTime > callerLog.first

RECURSIVE GrantedIn(_, _)
\* The number of calls granted at the clock values t1..t2
GrantedIn(t1, t2) ==
    IF t1 > t2 THEN 0 ELSE callerLog.granted[t2] + GrantedIn(t1, t2 - 1)

\* The caller has called at every clock value since its first call until it was denied
PolledToDenial ==
    /\ callerLog.first # ZeroTime
    /\ \A t \in callerLog.first..now : callerLog.denied[t]

\* C13: over any interval of length T the number of granted calls, eager or not and
\* whatever the debt, is at most SurplusLimit + T*MaxRate; a caller that is always
\* eager and polls continuously is granted more than SurplusLimit - 1 + T*MaxRate calls
\* in the T seconds since its first call, so its long-run rate equals MaxRate.
C13_GrantsBoundedByMaxRate ==
    /\ \A t1 \in 1..now : \A t2 \in t1..now :
          GrantedIn(t1, t2) * Unit <= pm.RateSurplusLimit * Unit + (t2 - t1) * pm.MaxRate
    /\ (~callerLog.lazyCalls /\ PolledToDenial)
       => GrantedIn(callerLog.first, now) * Unit
             > (pm.RateSurplusLimit - 1) * Unit + (now - callerLog.first) * pm.MaxRate

\* An always eager caller has polled for two seconds and was granted more calls than
\* the burst allowance alone permits
C13_Witness ==
    /\ ~callerLog.lazyCalls /\ PolledToDenial
    /\ now >= callerLog.first + 2
    /\ GrantedIn(callerLog.first, now) > pm.RateSurplusLimit
    /\ lastOp.name = "GetScrapePermission" /\ ~lastOp.ok

\* ------------------------------------------------------------------------
\* Specification SpecBench: one caller, always eager or never eager, driving a
\* pacemaker built from a given configuration; a tick is one second
\* ------------------------------------------------------------------------
\* MinRate=2, MaxRate=4, RateDebtLimit=20, RateSurplusLimit=10
TestWorthyPacemaker == newPacemakerImpl(2 * Unit, 4 * Unit, 20, 10)

\* MinRate=2/3, MaxRate=4/3, RateDebtLimit=2, RateSurplusLimit=3
SmallPacemaker == newPacemakerImpl(2, 4, 2, 3)

\* The pacemakers and callers of the bench
BenchSetups ==
    {TestWorthyPacemaker, SmallPacemaker} \X {"eager", "lazy"}

InitBench ==
    /\ shoots = [ns \in Namespaces |-> NoShootData]
    /\ kapiWatchers = <<>>
    /\ labelHeap = <<>>
    /\ now = 1
    /\ setPending = [c \in Callers |-> NoPending]
    /\ snapshot = <<>>
    /\ callerMap = NilMap
    /\ lastOp = Op("init", TRUE)
    /\ notified = <<>>
    /\ removedOk = {}
    /\ watcherLog = <<>>
    /\ \E setup \in BenchSetups :
          /\ pm = setup[1]
          /\ callerLog = NewCallerLog(setup[2])
    /\ getNextLog = NewGetNextLog
    /\ closeCalls = NoCloseCalls
    /\ InitHAService
    /\ InitScraper
    /\ InitScrapeQueue
    /\ updateQueue = <<>>

\* One second passes
BenchTick ==
    /\ now < MaxBenchTime
    /\ now' = now + 1
    /\ lastOp' = Op("Tick", TRUE)
    /\ notified' = <<>>
    /\ UNCHANGED regData
    /\ UNCHANGED restOfReg

NextBench ==
    \/ BenchTick
    \/ \E eager \in BOOLEAN : GetScrapePermission(eager)

SpecBench == InitBench /\ [][NextBench]_vars

\* The caller called GetScrapePermission at clock value t
CalledAt(t) == callerLog.granted[t] > 0 \/ callerLog.denied[t]

IsTestWorthy(p) ==
    /\ p.MinRate = 2 * Unit /\ p.MaxRate = 4 * Unit
    /\ p.RateDebtLimit = 20 /\ p.RateSurplusLimit = 10

\* At the first instant 10 eager calls are granted and the next is denied; 5 s later,
\* no call having been made in between, n eager calls are granted and the next is
\* denied
EagerBursts(n) ==
    (IsTestWorthy(pm) /\ callerLog.mode = "eager" /\ callerLog.first # ZeroTime)
    => /\ callerLog.first = now
          => /\ callerLog.granted[now] <= 10
             /\ callerLog.denied[now] => callerLog.granted[now] = 10
       /\ (/\ now = callerLog.first + 5
           /\ callerLog.denied[callerLog.first]
           /\ \A t \in (callerLog.first + 1)..(now - 1) : ~CalledAt(t))
          => /\ callerLog.granted[now] <= n
             /\ callerLog.denied[now] => callerLog.granted[now] = n

\* C11 as stated: with MinRate=2, MaxRate=4, DebtLimit=20, SurplusLimit=10 and a fresh
\* pacemaker, 10 eager calls at one instant are granted and the 11th is denied; after
\* 5 s without calls 20 further eager calls are granted and the 21st is denied.
C11_TwentyAfterIdle == EagerBursts(20)

\* C11 amended: with the same configuration, 10 eager calls at one instant are granted
\* and the 11th is denied; after 5 s without calls 10 further eager calls at one
\* instant are granted and the 11th is denied (the surplus allowance regained is
\* bounded by SurplusLimit).
C11_TenAfterIdle == EagerBursts(10)

\* The second burst has ended in a denial after 10 grants
C11_Witness ==
    /\ IsTestWorthy(pm) /\ callerLog.mode = "eager"
    /\ callerLog.first # ZeroTime /\ now = callerLog.first + 5
    /\ callerLog.granted[callerLog.first] = 10 /\ callerLog.denied[callerLog.first]
    /\ \A t \in (callerLog.first + 1)..(now - 1) : ~CalledAt(t)
    /\ callerLog.granted[now] = 10 /\ callerLog.denied[now]
    /\ lastOp.name = "GetScrapePermission" /\ ~lastOp.ok

\* The number of non-eager calls an idle period of d seconds from zero debt pays for
LazyAllowance(d) == Min((d * pm.MinRate) \div Unit, pm.RateDebtLimit)

\* After an idle period from zero debt, the non-eager calls granted at one instant
\* number LazyAllowance, surplus permitting, and the next is denied
LazyBurstRule ==
    (/\ callerLog.mode = "lazy" /\ callerLog.first # ZeroTime
     /\ GrantedIn(callerLog.first, now - 1) = 0
     /\ LazyAllowance(now - callerLog.first) <= pm.RateSurplusLimit)
    => /\ callerLog.granted[now] <= LazyAllowance(now - callerLog.first)
       /\ callerLog.denied[now] => callerLog.granted[now] = LazyAllowance(now - callerLog.first)

\* A never eager caller polling continuously (its debt never reaching the limit) has
\* been granted floor(T*MinRate) calls T seconds after its first call
LazyRateRule ==
    (/\ callerLog.mode = "lazy" /\ PolledToDenial
     /\ Unit - 1 + pm.MinRate <= pm.RateDebtLimit * Unit)
    => GrantedIn(callerLog.first, now) = ((now - callerLog.first) * pm.MinRate) \div Unit

\* C14: a non-eager call made while debt < 1 is denied; after an idle period D from
\* zero debt the non-eager calls granted at one instant number min(floor(D*MinRate),
\* DebtLimit), surplus permitting, and the next is denied; a caller that is never eager
\* and polls continuously is granted floor(T*MinRate) calls in the T seconds since its
\* first call, so its long-run rate equals MinRate.
C14_LazyCallsFollowMinRate ==
    [][/\ (lastOp'.name = "GetScrapePermission" /\ ~callerLog'.eager)
          => LET D == IF pm.lastUpdateTime = ZeroTime THEN 0 ELSE now - pm.lastUpdateTime
                 debt == Min(pm.RateDebtLimit * Unit, pm.currentDebt + D * pm.MinRate)
             IN debt < Unit => ~lastOp'.ok
       /\ LazyBurstRule'
       /\ LazyRateRule']_vars

\* A never eager caller, idle for longer than the debt limit pays for, was granted
\* DebtLimit calls at one instant and then denied
C14_Witness ==
    /\ callerLog.mode = "lazy" /\ callerLog.first # ZeroTime
    /\ GrantedIn(callerLog.first, now - 1) = 0
    /\ ((now - callerLog.first) * pm.MinRate) \div Unit > pm.RateDebtLimit
    /\ callerLog.granted[now] = pm.RateDebtLimit /\ callerLog.denied[now]
    /\ lastOp.name = "GetScrapePermission" /\ ~lastOp.ok

\* A never eager caller polling every second has been granted a call
C14_WitnessRate ==
    /\ callerLog.mode = "lazy" /\ PolledToDenial
    /\ Unit - 1 + pm.MinRate <= pm.RateDebtLimit * Unit
    /\ GrantedIn(callerLog.first, now) >= 2 /\ pm.MinRate < Unit

\* ------------------------------------------------------------------------
\* Specification SpecHA: replicas taking and losing leadership, each running
\* HAService.Start, against an API server whose calls may fail
\* ------------------------------------------------------------------------
MaxResourceVersion == 4

InitHA ==
    /\ shoots = [ns \in Namespaces |-> NoShootData]
    /\ kapiWatchers = <<>>
    /\ InitCallers
    /\ pm = newPacemaker(0, 0)
    /\ InitScraper
    /\ InitScrapeQueue
    /\ updateQueue = <<>>
    /\ leader = NoReplica
    /\ ha = [r \in Replicas |-> IdleReplica]
    \* no object, an object without subsets, or one left behind by a crashed replica
    /\ endpoints \in {NoEndpoints,
                      [exists |-> TRUE, UID |-> 1, ResourceVersion |-> 1, Subsets |-> <<>>],
                      [exists |-> TRUE, UID |-> 1, ResourceVersion |-> 1, Subsets |-> OurSubsets("r1")]}
    /\ endpointsCache = endpoints
    /\ apiSeq = IF endpoints.exists THEN 1 ELSE 0

\* The manager runs Start when the process becomes the leader
Start(r) ==
    /\ leader = NoReplica
    /\ ha[r].pc = "idle"
    /\ leader' = r
    /\ ha' = [ha EXCEPT ![r].pc = "setGet"]
    /\ lastOp' = HaOp("Start", TRUE, r, "leader")
    /\ UNCHANGED <<endpoints, endpointsCache, apiSeq>>
    /\ UNCHANGED restOfHa

\* The end of leadership closes the context Start was given
LeadershipLost(r) ==
    /\ leader = r
    /\ leader' = NoReplica
    /\ ha' = [ha EXCEPT ![r].cancelled = TRUE]
    /\ lastOp' = HaOp("LeadershipLost", TRUE, r, "cancelled")
    /\ UNCHANGED <<endpoints, endpointsCache, apiSeq>>
    /\ UNCHANGED restOfHa

\* setEndpoints: GetAPIReader().Get, which bypasses the cache
setEndpointsGet(r) ==
    /\ ha[r].pc = "setGet"
    /\ \E result \in {"ok", "error"} :
          /\ ha[r].cancelled => result = "error"
          /\ ha' = [ha EXCEPT ![r].pc = IF result = "ok" THEN "setUpdate" ELSE "retry",
                              ![r].seen = IF result = "ok" THEN endpoints ELSE NoEndpoints]
          /\ lastOp' = HaOp("setEndpoints.Get", result = "ok", r, result)
    /\ UNCHANGED <<leader, endpoints, endpointsCache, apiSeq>>
    /\ UNCHANGED restOfHa

\* setEndpoints: GetClient().Update. The request may fail before it reaches the
\* server, be refused by it, or be applied with the response lost.
setEndpointsUpdate(r) ==
    /\ ha[r].pc = "setUpdate"
    /\ LET obj == setEndpointsObject(ha[r].seen, r)
       IN \E result \in UpdateOutcomes(endpoints, obj) \cup {"error"}, responseLost \in BOOLEAN :
             /\ ha[r].cancelled => result = "error"
             /\ result \in {"updated", "created"} => apiSeq < MaxResourceVersion
             /\ result \notin {"updated", "created"} => ~responseLost
             /\ endpoints' = UpdateApplied(endpoints, obj, result, apiSeq)
             /\ apiSeq' = IF result \in {"updated", "created"} THEN apiSeq + 1 ELSE apiSeq
             /\ ha' = [ha EXCEPT ![r].pc = IF result \in {"updated", "created"} /\ ~responseLost
                                           THEN "serving" ELSE "retry",
                                 ![r].seen = NoEndpoints]
             /\ lastOp' = HaOp("setEndpoints.Update", result \in {"updated", "created"}, r, result)
    /\ UNCHANGED <<leader, endpointsCache>>
    /\ UNCHANGED restOfHa

\* Start's retry loop: the timer fires and setEndpoints is called again. The timer is
\* created on entry to the select with a positive period, so with the context
\* cancelled before or during the wait only ctx.Done() is ready. The length of the
\* wait is left out here and modelled in SpecBackoff.
retryTimer(r) ==
    /\ ha[r].pc = "retry"
    /\ ~ha[r].cancelled
    /\ ha' = [ha EXCEPT ![r].pc = "setGet"]
    /\ lastOp' = HaOp("Start.retry", TRUE, r, "timer")
    /\ UNCHANGED <<leader, endpoints, endpointsCache, apiSeq>>
    /\ UNCHANGED restOfHa

\* <-ctx.Done(), in the retry loop or after the endpoints were set: cleanup begins
ctxDone(r) ==
    /\ ha[r].pc \in {"retry", "serving"}
    /\ ha[r].cancelled
    /\ ha' = [ha EXCEPT ![r].pc = "cleanGet", ![r].attempt = 0]
    /\ lastOp' = HaOp("Start.ctxDone", TRUE, r, ha[r].pc)
    /\ UNCHANGED <<leader, endpoints, endpointsCache, apiSeq>>
    /\ UNCHANGED restOfHa

\* attempt++; if attempt >= 10 { break }; sleep and retry
AfterFailedAttempt(h) ==
    IF h.attempt + 1 >= CleanupAttempts
    THEN [h EXCEPT !.pc = "done", !.attempt = @ + 1, !.seen = NoEndpoints]
    ELSE [h EXCEPT !.pc = "cleanGet", !.attempt = @ + 1, !.seen = NoEndpoints]

\* cleanUpServiceEndpoints: GetClient().Get, answered from the manager's cache
cleanUpGet(r) ==
    /\ ha[r].pc = "cleanGet"
    /\ \E result \in {"ok", "error"} :
          /\ ha' = [ha EXCEPT ![r] =
                      IF result = "error" THEN AfterFailedAttempt(@)
                      ELSE IF ~endpointsCache.exists THEN [@ EXCEPT !.pc = "done"]
                      ELSE IF ~isEndpointStillPointingToOurReplica(endpointsCache, r)
                           THEN [@ EXCEPT !.pc = "done"]
                      ELSE [@ EXCEPT !.pc = "cleanDelete", !.seen = endpointsCache]]
          /\ lastOp' = HaOp("cleanUpServiceEndpoints.Get", result = "ok", r,
                            IF result = "error" THEN "error"
                            ELSE IF ~endpointsCache.exists THEN "NotFound"
                            ELSE IF ~isEndpointStillPointingToOurReplica(endpointsCache, r)
                                 THEN "abandon"
                            ELSE "ours")
    /\ UNCHANGED <<leader, endpoints, endpointsCache, apiSeq>>
    /\ UNCHANGED restOfHa

\* cleanUpServiceEndpoints: Delete with the UID and resource version of the object read
cleanUpDelete(r) ==
    /\ ha[r].pc = "cleanDelete"
    /\ \E result \in {DeleteOutcome(endpoints, ha[r].seen), "error"}, responseLost \in BOOLEAN :
          /\ result # "deleted" => ~responseLost
          /\ endpoints' = IF result = "deleted" THEN NoEndpoints ELSE endpoints
          /\ ha' = [ha EXCEPT ![r] =
                      IF result \in {"deleted", "NotFound"} /\ ~responseLost
                      THEN [@ EXCEPT !.pc = "done", !.seen = NoEndpoints]
                      ELSE AfterFailedAttempt(@)]
          /\ lastOp' = HaOp("cleanUpServiceEndpoints.Delete", result = "deleted", r, result)
    /\ UNCHANGED <<leader, endpointsCache, apiSeq>>
    /\ UNCHANGED restOfHa

\* The cache catches up with the API server
CacheSync ==
    /\ endpointsCache # endpoints
    /\ endpointsCache' = endpoints
    /\ lastOp' = HaOp("CacheSync", TRUE, NoReplica, "sync")
    /\ UNCHANGED <<leader, ha, endpoints, apiSeq>>
    /\ UNCHANGED restOfHa

\* Start has returned; the process ends and the replica comes back as a new process
ProcessRestart(r) ==
    /\ ha[r].pc = "done"
    /\ ha' = [ha EXCEPT ![r] = IdleReplica]
    /\ lastOp' = HaOp("ProcessRestart", TRUE, r, "idle")
    /\ UNCHANGED <<leader, endpoints, endpointsCache, apiSeq>>
    /\ UNCHANGED restOfHa

NextHA ==
    \/ \E r \in Replicas : Start(r)
    \/ \E r \in Replicas : LeadershipLost(r)
    \/ \E r \in Replicas : setEndpointsGet(r)
    \/ \E r \in Replicas : setEndpointsUpdate(r)
    \/ \E r \in Replicas : retryTimer(r)
    \/ \E r \in Replicas : ctxDone(r)
    \/ \E r \in Replicas : cleanUpGet(r)
    \/ \E r \in Replicas : cleanUpDelete(r)
    \/ CacheSync
    \/ \E r \in Replicas : ProcessRestart(r)

SpecHA == InitHA /\ [][NextHA]_vars

C5_CleanupDeletesOnlyOwnRecord ==
    [][(endpoints.exists /\ ~endpoints'.exists)
       => /\ lastOp'.name = "cleanUpServiceEndpoints.Delete"
          /\ isEndpointStillPointingToOurReplica(endpoints, lastOp'.val.who)
          /\ ha[lastOp'.val.who].seen.UID = endpoints.UID
          /\ ha[lastOp'.val.who].seen.ResourceVersion = endpoints.ResourceVersion]_vars

\* A cleanup's Delete was refused because another replica had taken the record over
\* after the cleanup had read it
C5_Witness ==
    /\ lastOp.name = "cleanUpServiceEndpoints.Delete"
    /\ lastOp.val.result = "Conflict"
    /\ endpoints.exists
    /\ ~isEndpointStillPointingToOurReplica(endpoints, lastOp.val.who)
    /\ \E r \in Replicas : isEndpointStillPointingToOurReplica(endpoints, r)

\* ------------------------------------------------------------------------
\* Specification SpecScraper: the shift scheduler and its workers
\* ------------------------------------------------------------------------
MaxDueCount == 3
MaxWorkers == 5

\* startShiftWorkers; thisTargets and unprocessed are what the two DueCount calls return
startShiftWorkers(thisTargets, unprocessed) ==
    /\ \E estimate \in EstimatedWorkerCounts(sc.lastShiftScrapeTargetCount, sc.lastShiftWorkerCount,
                                             unprocessed, thisTargets) :
          LET count == ShiftWorkerCount(sc, unprocessed, estimate)
          IN /\ sc.activeWorkerCount + Max(count, 0) <= MaxWorkers
             /\ sc' = [lastShiftStartTime |-> now,
                       lastShiftWorkerCount |-> count,
                       lastShiftScrapeTargetCount |-> thisTargets,
                       activeWorkerCount |-> sc.activeWorkerCount + Max(count, 0)]
             /\ lastOp' = OpOn("startShiftWorkers", count > 0, now, count,
                               <<thisTargets, unprocessed>>)
    /\ UNCHANGED <<startRun, response>>
    /\ UNCHANGED restOfSc

\* workerProc returns: GetNext gave no target, or the context is done
workerProc ==
    /\ sc.activeWorkerCount > 0
    /\ sc' = [sc EXCEPT !.activeWorkerCount = @ - 1]
    /\ lastOp' = OpV("workerProc", TRUE, now, sc.activeWorkerCount - 1)
    /\ UNCHANGED <<startRun, response>>
    /\ UNCHANGED restOfSc

NextScraper ==
    \/ Tick
    \/ \E thisTargets \in 0..MaxDueCount, unprocessed \in 0..MaxDueCount :
          /\ unprocessed <= sc.lastShiftScrapeTargetCount
          /\ startShiftWorkers(thisTargets, unprocessed)
    \/ workerProc

SpecScraper == InitRegistry /\ [][NextScraper]_vars

\* C6: in every reachable scraper state activeWorkerCount <= maxActiveWorkerCount.
C6_ActiveWorkersWithinMax == sc.activeWorkerCount <= maxActiveWorkerCount

\* ------------------------------------------------------------------------
\* Specification SpecQueue: a scrape queue subscribed to the registry, with
\* registry mutators, the event worker, GetNext and DueCount callers and Close.
\* reg.lock is held across a step only by a mutator blocked in onKapiUpdated;
\* q.targetLock is held from GetNext's / DueCount's first step to its last.
\* ------------------------------------------------------------------------
MaxQueueTime == 2

RegLockFree == sendBlocked = NoEvent

\* q.updateQueue != nil
updateQueueOpen == closePc # "closed"

\* NewScrapeQueue on a registry that is empty or holds one target: the handle is
\* registered, the existing targets are replayed into the channel, and the worker
\* is started
InitQueue ==
    /\ shoots \in {[ns \in Namespaces |-> NoShootData],
                   SetKapiDataShoots([ns \in Namespaces |-> NoShootData], "ns1", "p1", "u1", NilMap, "url1")}
    /\ kapiWatchers = AddKapiWatcherWatchers(<<>>, QueueWatcher)
    /\ InitCallers
    /\ pm = newPacemaker(0, 0)
    /\ InitHAService
    /\ InitScraper
    /\ InitScrapeQueue
    /\ \E o \in NamespaceOrders :
          updateQueue = [i \in 1..Len(ReplayEvents(shoots, QueueWatcher, o)) |->
                            kapiEvent(ReplayEvents(shoots, QueueWatcher, o)[i].ns,
                                      ReplayEvents(shoots, QueueWatcher, o)[i].pod,
                                      ReplayEvents(shoots, QueueWatcher, o)[i].type)]

\* onKapiUpdated for event e, called with reg.lock held if the handle is registered:
\* the event is buffered, or the caller blocks in the send when the buffer is full
onKapiUpdatedSends(delivered) == delivered /\ IsRegistered(kapiWatchers, QueueWatcher) /\ updateQueueOpen

\* SetKapiData on a registry watched by the queue
SetKapiDataWatched(ns, pod) ==
    /\ RegLockFree
    /\ shoots' = SetKapiDataShoots(shoots, ns, pod, "u1", NilMap, "url1")
    /\ LET sends == onKapiUpdatedSends(~HasKapi(shoots, ns, pod))
           e == kapiEvent(ns, pod, KapiEventCreate)
       IN /\ updateQueue' = IF sends /\ Len(updateQueue) < UpdateQueueCap
                            THEN Append(updateQueue, e) ELSE updateQueue
          /\ sendBlocked' = IF sends /\ Len(updateQueue) >= UpdateQueueCap THEN e ELSE NoEvent
    /\ notified' = SetKapiDataEvents(shoots, kapiWatchers, ns, pod, "u1", NilMap, "url1")
    /\ lastOp' = Op("SetKapiData", ~HasKapi(shoots, ns, pod))
    /\ UNCHANGED <<kapiWatchers, now, removedOk, pm, targets, workerEvent, workerExited,
                   targetLock, candidate, closePc>>
    /\ UNCHANGED restOfSq

\* RemoveKapiData on a registry watched by the queue: the watchers are notified
\* before the record is deleted
RemoveKapiDataWatched(ns, pod) ==
    /\ RegLockFree
    /\ LET sends == onKapiUpdatedSends(HasKapi(shoots, ns, pod))
           e == kapiEvent(ns, pod, KapiEventDelete)
           blocks == sends /\ Len(updateQueue) >= UpdateQueueCap
       IN /\ updateQueue' = IF sends /\ ~blocks THEN Append(updateQueue, e) ELSE updateQueue
          /\ sendBlocked' = IF blocks THEN e ELSE NoEvent
          /\ shoots' = IF blocks THEN shoots ELSE RemoveKapiDataShoots(shoots, ns, pod)
    /\ notified' = RemoveKapiDataEvents(shoots, kapiWatchers, ns, pod)
    /\ lastOp' = Op("RemoveKapiData", HasKapi(shoots, ns, pod))
    /\ UNCHANGED <<kapiWatchers, now, removedOk, pm, targets, workerEvent, workerExited,
                   targetLock, candidate, closePc>>
    /\ UNCHANGED restOfSq

\* The blocked send completes, and the mutator finishes and releases reg.lock
onKapiUpdatedResume ==
    /\ sendBlocked # NoEvent
    /\ Len(updateQueue) < UpdateQueueCap
    /\ updateQueue' = Append(updateQueue, sendBlocked)
    /\ shoots' = IF sendBlocked.type = KapiEventDelete
                 THEN RemoveKapiDataShoots(shoots, sendBlocked.ns, sendBlocked.pod)
                 ELSE shoots
    /\ sendBlocked' = NoEvent
    /\ notified' = <<>>
    /\ lastOp' = Op("onKapiUpdated", TRUE)
    /\ UNCHANGED <<kapiWatchers, now, removedOk, pm, targets, workerEvent, workerExited,
                   targetLock, candidate, closePc>>
    /\ UNCHANGED restOfSq

\* processKapiEvents: for event := range queue
processKapiEventsReceive ==
    /\ ~workerExited
    /\ workerEvent = NoEvent
    /\ updateQueue # <<>>
    /\ workerEvent' = Head(updateQueue)
    /\ updateQueue' = Tail(updateQueue)
    /\ notified' = <<>>
    /\ lastOp' = Op("processKapiEvents", TRUE)
    /\ UNCHANGED <<shoots, kapiWatchers, now, removedOk, pm, targets, sendBlocked, workerExited,
                   targetLock, candidate, closePc>>
    /\ UNCHANGED restOfSq

\* processKapiEvents: the channel is closed and drained, the loop ends
processKapiEventsReturn ==
    /\ ~workerExited
    /\ workerEvent = NoEvent
    /\ updateQueue = <<>>
    /\ ~updateQueueOpen
    /\ workerExited' = TRUE
    /\ notified' = <<>>
    /\ lastOp' = Op("processKapiEvents", FALSE)
    /\ UNCHANGED <<shoots, kapiWatchers, now, removedOk, pm, targets, updateQueue, sendBlocked,
                   workerEvent, targetLock, candidate, closePc>>
    /\ UNCHANGED restOfSq

\* processSingleKapiEvent, under q.targetLock: the list, then pacemaker.UpdateRate
processSingleKapiEvent ==
    /\ workerEvent # NoEvent
    /\ targetLock = "free"
    /\ targets' = processSingleKapiEventTargets(targets, workerEvent)
    /\ pm' = UpdateRatePM(pm, Len(targets'), Len(targets'))
    /\ workerEvent' = NoEvent
    /\ notified' = <<>>
    /\ lastOp' = Op("processSingleKapiEvent", targets' # targets)
    /\ UNCHANGED <<shoots, kapiWatchers, now, removedOk, updateQueue, sendBlocked, workerExited,
                   targetLock, candidate, closePc>>
    /\ UNCHANGED restOfSq

\* GetNext: q.targetLock.Lock()
GetNextLock ==
    /\ targetLock = "free"
    /\ targetLock' = "GetNext"
    /\ notified' = <<>>
    /\ lastOp' = Op("GetNext", FALSE)
    /\ UNCHANGED <<shoots, kapiWatchers, now, removedOk, pm, targets, updateQueue, sendBlocked,
                   workerEvent, workerExited, candidate, closePc>>
    /\ UNCHANGED restOfSq

\* GetNext: one round of getNextCandidateThreadUnsafe's loop (registry.GetKapiData
\* takes reg.lock) and, once the head is a target of the registry, the pacemaker's
\* decision at the clock value read
GetNextCandidate ==
    /\ targetLock = "GetNext"
    /\ targets = <<>> \/ RegLockFree
    /\ IF targets = <<>>
       THEN /\ targetLock' = "free"
            /\ lastOp' = Op("GetNext", FALSE)
            /\ UNCHANGED <<targets, pm, candidate>>
       ELSE IF ~HasKapi(shoots, Head(targets).Namespace, Head(targets).PodName)
       THEN /\ targets' = Tail(targets)
            /\ lastOp' = Op("getNextCandidateThreadUnsafe", TRUE)
            /\ UNCHANGED <<targetLock, pm, candidate>>
       ELSE LET kapi == getKapiDataThreadUnsafe(shoots, Head(targets).Namespace, Head(targets).PodName)
                eagerToProcess == EagerToProcess(kapi.LastMetricsScrapeTime, now)
            IN /\ pm' = GetScrapePermissionPM(pm, now, eagerToProcess)
               /\ IF PMAllowed(pm, now, eagerToProcess)
                  THEN /\ targetLock' = "GetNextSettle"
                       /\ candidate' = [target |-> Head(targets), now |-> now]
                       /\ lastOp' = Op("GetNext", FALSE)
                  ELSE /\ targetLock' = "free"
                       /\ candidate' = candidate
                       /\ lastOp' = Op("GetNext", FALSE)
               /\ UNCHANGED targets
    /\ notified' = <<>>
    /\ UNCHANGED <<shoots, kapiWatchers, now, removedOk, updateQueue, sendBlocked,
                   workerEvent, workerExited, closePc>>
    /\ UNCHANGED restOfSq

\* GetNext: registry.SetKapiLastScrapeTime (takes reg.lock), MoveToBack, unlock
GetNextSettle ==
    /\ targetLock = "GetNextSettle"
    /\ RegLockFree
    /\ shoots' = SetKapiLastScrapeTimeShoots(shoots, candidate.target.Namespace,
                                             candidate.target.PodName, candidate.now)
    /\ targets' = Append(Tail(targets), Head(targets))
    /\ targetLock' = "free"
    /\ candidate' = NoCandidate
    /\ notified' = <<>>
    /\ lastOp' = Op("GetNext", TRUE)
    /\ UNCHANGED <<kapiWatchers, now, removedOk, pm, updateQueue, sendBlocked,
                   workerEvent, workerExited, closePc>>
    /\ UNCHANGED restOfSq

\* DueCount: q.targetLock.Lock()
DueCountLock ==
    /\ targetLock = "free"
    /\ targetLock' = "DueCount"
    /\ notified' = <<>>
    /\ lastOp' = Op("DueCount", FALSE)
    /\ UNCHANGED <<shoots, kapiWatchers, now, removedOk, pm, targets, updateQueue, sendBlocked,
                   workerEvent, workerExited, candidate, closePc>>
    /\ UNCHANGED restOfSq

\* DueCount: the loop (registry.GetKapiData takes reg.lock for every target), unlock
DueCount(dueAtTime, excludeUnscraped) ==
    /\ targetLock = "DueCount"
    /\ targets = <<>> \/ RegLockFree
    /\ targetLock' = "free"
    /\ notified' = <<>>
    /\ lastOp' = OpOn("DueCount", TRUE, ZeroTime,
                      DueCountFrom(targets, shoots, dueAtTime, excludeUnscraped),
                      <<dueAtTime, excludeUnscraped>>)
    /\ UNCHANGED <<shoots, kapiWatchers, now, removedOk, pm, targets, updateQueue, sendBlocked,
                   workerEvent, workerExited, candidate, closePc>>
    /\ UNCHANGED restOfSq

\* Close: registry.RemoveKapiWatcher(&q.kapiWatcher) (takes reg.lock)
CloseRemoveKapiWatcher ==
    /\ closePc = "open"
    /\ RegLockFree
    /\ kapiWatchers' = RemoveKapiWatcherWatchers(kapiWatchers, QueueWatcher)
    /\ removedOk' = IF IsRegistered(kapiWatchers, QueueWatcher)
                    THEN removedOk \cup {QueueWatcher} ELSE removedOk
    /\ closePc' = "removed"
    /\ notified' = <<>>
    /\ lastOp' = Op("RemoveKapiWatcher", IsRegistered(kapiWatchers, QueueWatcher))
    /\ UNCHANGED <<shoots, now, pm, targets, updateQueue, sendBlocked, workerEvent, workerExited,
                   targetLock, candidate>>
    /\ UNCHANGED restOfSq

\* Close: under q.updateQueueLock, close(q.updateQueue); q.updateQueue = nil
Close ==
    /\ closePc = "removed"
    /\ sendBlocked = NoEvent
    /\ closePc' = "closed"
    /\ notified' = <<>>
    /\ lastOp' = Op("Close", TRUE)
    /\ UNCHANGED <<shoots, kapiWatchers, now, removedOk, pm, targets, updateQueue, sendBlocked,
                   workerEvent, workerExited, targetLock, candidate>>
    /\ UNCHANGED restOfSq

NextQueue ==
    \/ (now < MaxQueueTime /\ Tick)
    \* the registry's callers are followed until Close has returned; from then on
    \* nothing they do reaches the queue
    \/ \E pod \in Pods : updateQueueOpen /\ SetKapiDataWatched("ns1", pod)
    \/ \E pod \in Pods : updateQueueOpen /\ RemoveKapiDataWatched("ns1", pod)
    \/ onKapiUpdatedResume
    \/ processKapiEventsReceive
    \/ processKapiEventsReturn
    \/ processSingleKapiEvent
    \/ GetNextLock
    \/ GetNextCandidate
    \/ GetNextSettle
    \/ DueCountLock
    \/ \E dueAtTime \in {ZeroTime} \cup 1..now, excludeUnscraped \in BOOLEAN :
          DueCount(dueAtTime, excludeUnscraped)
    \/ CloseRemoveKapiWatcher
    \/ Close

SpecQueue == InitQueue /\ [][NextQueue]_vars

\* C2: delivering a registry event to the queue never blocks the registry, so no
\* state is reached in which a mutator holding reg.lock waits in the channel send
\* for the event worker, the worker waits for q.targetLock, and the GetNext or
\* DueCount caller holding q.targetLock waits for reg.lock.
C2_EmissionNeverDeadlocks ==
    ~(/\ sendBlocked # NoEvent
      /\ Len(updateQueue) >= UpdateQueueCap
      /\ workerEvent # NoEvent
      /\ targetLock \in {"GetNext", "GetNextSettle", "DueCount"}
      /\ targets # <<>>)

\* C3: while the queue is open (Close not begun), whenever the event buffer is empty
\* and the event worker holds no event (and no mutator is in the middle of sending
\* one), the queue lists exactly the registry's targets, each once.
C3_QueueMatchesRegistry ==
    (closePc = "open" /\ updateQueue = <<>> /\ workerEvent = NoEvent /\ sendBlocked = NoEvent)
    => /\ {targets[i] : i \in 1..Len(targets)} =
          {scrapeTarget(x[1], x[2]) : x \in {y \in Namespaces \X Pods : HasKapi(shoots, y[1], y[2])}}
       /\ \A i, j \in 1..Len(targets) : targets[i] = targets[j] => i = j
       /\ Len(targets) = Cardinality({<<ns, pod>> \in Namespaces \X Pods : HasKapi(shoots, ns, pod)})

\* The worker has just applied a delete event for a target that GetNext had already
\* removed on the fly, the buffer is drained, and the queue holds the other target
C3_Witness ==
    /\ closePc = "open" /\ updateQueue = <<>> /\ workerEvent = NoEvent /\ sendBlocked = NoEvent
    /\ lastOp.name = "processSingleKapiEvent" /\ ~lastOp.ok
    /\ Len(targets) = 1

\* ------------------------------------------------------------------------
\* Specification SpecRotate: workers calling GetNext on a queue whose targets
\* neither come nor go. A GetNext call runs under q.targetLock from its first
\* statement to its last, so the calls of concurrent workers happen one after
\* the other; the clock may advance between any two of them.
\* ------------------------------------------------------------------------
MaxRotateTime == 8

RECURSIVE getNextCandidateTargets(_, _)
\* getNextCandidateThreadUnsafe: the list after the heads missing from the registry
\* were removed; its head, if any, is the candidate
getNextCandidateTargets(ts, sh) ==
    IF ts = <<>> THEN ts
    ELSE IF HasKapi(sh, Head(ts).Namespace, Head(ts).PodName) THEN ts
    ELSE getNextCandidateTargets(Tail(ts), sh)

\* Mutant: the target returned stays at the front
GetNextTargetsNoRotation(ts, sh, isAllowedToScrape) ==
    getNextCandidateTargets(ts, sh)

\* q.targets after GetNext: MoveToBack(Front) if the pacemaker agreed
GetNextTargets(ts, sh, isAllowedToScrape) ==
    LET c == getNextCandidateTargets(ts, sh)
    IN IF c # <<>> /\ isAllowedToScrape THEN Append(Tail(c), Head(c)) ELSE c

\* Mutant: the scrape time is recorded before the pacemaker is asked
GetNextShootsBeforePermission(ts, sh, t, isAllowedToScrape) ==
    LET c == getNextCandidateTargets(ts, sh)
    IN IF c # <<>>
       THEN SetKapiLastScrapeTimeShoots(sh, Head(c).Namespace, Head(c).PodName, t)
       ELSE sh

\* The registry after GetNext: SetKapiLastScrapeTime(candidate, now) if the pacemaker agreed
GetNextShoots(ts, sh, t, isAllowedToScrape) ==
    LET c == getNextCandidateTargets(ts, sh)
    IN IF c # <<>> /\ isAllowedToScrape
       THEN SetKapiLastScrapeTimeShoots(sh, Head(c).Namespace, Head(c).PodName, t)
       ELSE sh

\* Mutant: the candidate is never eager
GetNextEagerNever(ts, sh, t) == FALSE

\* eagerToProcess of the candidate at clock value t
GetNextEager(ts, sh, t) ==
    LET c == getNextCandidateTargets(ts, sh)
    IN EagerToProcess(getKapiDataThreadUnsafe(sh, Head(c).Namespace, Head(c).PodName).LastMetricsScrapeTime, t)

\* GetNext, one call of one worker
GetNext ==
    LET c == getNextCandidateTargets(targets, shoots)
        isAllowedToScrape == c # <<>> /\ PMAllowed(pm, now, GetNextEager(targets, shoots, now))
    IN /\ pm' = IF c = <<>> THEN pm
                ELSE GetScrapePermissionPM(pm, now, GetNextEager(targets, shoots, now))
       /\ shoots' = GetNextShoots(targets, shoots, now, isAllowedToScrape)
       /\ targets' = GetNextTargets(targets, shoots, isAllowedToScrape)
       /\ getNextLog' = IF isAllowedToScrape
                        THEN [getNextLog EXCEPT !.returned = Append(@, Head(c)), !.polled = FALSE]
                        ELSE [getNextLog EXCEPT !.polled = TRUE]
       /\ lastOp' = OpOn("GetNext", isAllowedToScrape, now, 0,
                         IF c = <<>> THEN <<>> ELSE <<Head(c).Namespace, Head(c).PodName>>)
       /\ notified' = <<>>
       /\ UNCHANGED <<kapiWatchers, labelHeap, now, setPending, snapshot, callerMap, removedOk,
                      watcherLog, callerLog, closeCalls>>
       /\ UNCHANGED <<haVars, scVars, updateQueue, sendBlocked, workerEvent, workerExited,
                      targetLock, candidate, closePc>>

\* One tick passes; the tally notes whether the workers had polled until refused
RotateTick ==
    /\ now < MaxRotateTime
    /\ now' = now + 1
    /\ getNextLog' = [getNextLog EXCEPT !.polled = FALSE,
                                        !.continuous = getNextLog.continuous /\ getNextLog.polled]
    /\ lastOp' = Op("Tick", TRUE)
    /\ notified' = <<>>
    /\ UNCHANGED <<shoots, kapiWatchers, labelHeap, setPending, snapshot, callerMap, removedOk,
                   watcherLog, callerLog, closeCalls>>
    /\ UNCHANGED <<pmVars, haVars, scVars, sqVars>>

\* The registry holding the pods ps, created in that order
RECURSIVE ShootsWith(_)
ShootsWith(ps) ==
    IF ps = <<>> THEN [ns \in Namespaces |-> NoShootData]
    ELSE SetKapiDataShoots(ShootsWith(SubSeq(ps, 1, Len(ps) - 1)), "ns1", ps[Len(ps)], "u1", NilMap, "url1")

\* The list and the pacemaker after the worker applied the create events of ps
RECURSIVE TargetsOf(_)
TargetsOf(ps) ==
    IF ps = <<>> THEN <<>>
    ELSE processSingleKapiEventTargets(TargetsOf(SubSeq(ps, 1, Len(ps) - 1)),
                                       kapiEvent("ns1", ps[Len(ps)], KapiEventCreate))

RotateSetups == {<<"p1">>, <<"p1", "p2">>, <<"p2", "p1">>}

\* A queue that has caught up with a registry of one or two targets, none scraped yet
InitRotate ==
    /\ \E ps \in RotateSetups :
          /\ shoots = ShootsWith(ps)
          /\ targets = TargetsOf(ps)
          /\ pm = UpdateRatePM(newPacemaker(0, 0), Len(ps), Len(ps))
    /\ kapiWatchers = AddKapiWatcherWatchers(<<>>, QueueWatcher)
    /\ InitCallers
    /\ InitHAService
    /\ InitScraper
    /\ updateQueue = <<>>
    /\ sendBlocked = NoEvent
    /\ workerEvent = NoEvent
    /\ workerExited = FALSE
    /\ targetLock = "free"
    /\ candidate = NoCandidate
    /\ closePc = "open"

NextRotate ==
    \/ RotateTick
    \/ GetNext

SpecRotate == InitRotate /\ [][NextRotate]_vars

\* C21: when the pacemaker refuses, GetNext returns nil, leaves the list in its
\* order and every target's LastMetricsScrapeTime as it is, so the next GetNext call
\* has the same candidate.
C21_DenialKeepsHead ==
    [][(lastOp'.name = "GetNext" /\ ~lastOp'.ok /\ lastOp'.arg # <<>>)
       => /\ targets' = getNextCandidateTargets(targets, shoots)
          /\ shoots' = shoots
          /\ getNextLog'.returned = getNextLog.returned
          /\ getNextCandidateTargets(targets', shoots') # <<>>
          /\ Head(getNextCandidateTargets(targets', shoots'))
                = scrapeTarget(lastOp'.arg[1], lastOp'.arg[2])
          /\ Head(getNextCandidateTargets(targets', shoots'))
                = Head(getNextCandidateTargets(targets, shoots))]_vars

\* The pacemaker has refused a call for the head of a queue of two targets after
\* both were returned once
C21_Witness ==
    /\ lastOp.name = "GetNext" /\ ~lastOp.ok /\ lastOp.arg # <<>>
    /\ Len(targets) = 2
    /\ Len(getNextLog.returned) >= 2
    /\ Head(targets) = scrapeTarget(lastOp.arg[1], lastOp.arg[2])

\* C22: with the targets neither coming nor going, the targets the GetNext calls
\* return, whichever worker makes them, follow one fixed cyclic order: with n
\* targets the (k+n)-th target returned is the k-th one, and no target is returned
\* again before every other target was returned once.
C22_CyclicOrder ==
    LET n == Len(targets)
        r == getNextLog.returned
    IN \A k \in 1..Len(r) :
          /\ k + n <= Len(r) => r[k + n] = r[k]
          /\ \A j \in (k + 1)..Min(k + n - 1, Len(r)) : r[j] # r[k]

\* Two targets have been returned twice each
C22_Witness ==
    /\ Len(targets) = 2
    /\ Len(getNextLog.returned) >= 4
    /\ lastOp.name = "GetNext" /\ lastOp.ok

\* LastMetricsScrapeTime of the target x of the list
LastServed(sh, x) == getKapiDataThreadUnsafe(sh, x.Namespace, x.PodName).LastMetricsScrapeTime

\* The workers have polled GetNext until refused at every clock value so far
PolledContinuously == getNextLog.continuous /\ getNextLog.polled

\* The target the last GetNext call was about
LastTarget(op) == scrapeTarget(op.arg[1], op.arg[2])

\* Once the workers were refused, every target was returned within the last scrapePeriod
NoneWaitsLonger ==
    PolledContinuously
    => \A i \in 1..Len(targets) :
          /\ LastServed(shoots, targets[i]) # ZeroTime
          /\ now - LastServed(shoots, targets[i]) <= ScrapePeriod

C23_WitnessSteady ==
    /\ PolledContinuously
    /\ Len(getNextLog.returned) >= 6
    /\ \A i \in 1..Len(targets) : now - LastServed(shoots, targets[i]) <= ScrapePeriod

\* ------------------------------------------------------------------------
\* Specification SpecClose: a scrape queue whose Close is called by up to two
\* goroutines while registry mutators, the event worker and GetNext callers
\* keep running, also after Close has returned
\* ------------------------------------------------------------------------
\* Mutant: the channel is closed without looking at q.updateQueue
CloseChannelUnchecked(open, closes) == closes + 1

\* Close under q.updateQueueLock: if q.updateQueue != nil { close(q.updateQueue) }
CloseChannel(open, closes) == IF open THEN closes + 1 ELSE closes

\* Close of goroutine k: registry.RemoveKapiWatcher(&q.kapiWatcher) (takes reg.lock)
CloseCallRemoveKapiWatcher(k) ==
    /\ closeCalls.pc[k] = "idle"
    /\ RegLockFree
    /\ kapiWatchers' = RemoveKapiWatcherWatchers(kapiWatchers, QueueWatcher)
    /\ removedOk' = IF IsRegistered(kapiWatchers, QueueWatcher)
                    THEN removedOk \cup {QueueWatcher} ELSE removedOk
    /\ closePc' = IF closePc = "open" THEN "removed" ELSE closePc
    /\ closeCalls' = [closeCalls EXCEPT !.pc[k] = "removed",
                                        !.err[k] = ~IsRegistered(kapiWatchers, QueueWatcher)]
    /\ notified' = <<>>
    /\ lastOp' = Op("RemoveKapiWatcher", IsRegistered(kapiWatchers, QueueWatcher))
    /\ UNCHANGED <<shoots, labelHeap, now, setPending, snapshot, callerMap, watcherLog,
                   callerLog, getNextLog>>
    /\ UNCHANGED <<pmVars, haVars, scVars, targets, updateQueue, sendBlocked, workerEvent,
                   workerExited, targetLock, candidate>>

\* Close of goroutine k: the channel is closed under q.updateQueueLock, which a
\* mutator blocked in onKapiUpdated holds; then Close returns
CloseCallReturn(k) ==
    /\ closeCalls.pc[k] = "removed"
    /\ sendBlocked = NoEvent
    /\ closePc' = "closed"
    /\ closeCalls' = [closeCalls EXCEPT !.pc[k] = "done",
                                        !.closes = CloseChannel(updateQueueOpen, @)]
    /\ notified' = <<>>
    /\ lastOp' = Op("Close", ~closeCalls.err[k])
    /\ UNCHANGED <<shoots, kapiWatchers, labelHeap, now, setPending, snapshot, callerMap,
                   removedOk, watcherLog, callerLog, getNextLog>>
    /\ UNCHANGED <<pmVars, haVars, scVars, targets, updateQueue, sendBlocked, workerEvent,
                   workerExited, targetLock, candidate>>

\* A Close call has returned
CloseReturned == \E k \in Closers : closeCalls.pc[k] = "done"

\* RemoveKapiData called after Close has returned and the event worker has ended:
\* no watcher is registered, so no event is made; the target is noted
RemoveKapiDataAfterClose(ns, pod) ==
    /\ CloseReturned /\ workerExited
    /\ RegLockFree
    /\ kapiWatchers = <<>>
    /\ shoots' = RemoveKapiDataShoots(shoots, ns, pod)
    /\ closeCalls' = [closeCalls EXCEPT !.removedAfter =
                         IF HasKapi(shoots, ns, pod) THEN @ \cup {scrapeTarget(ns, pod)} ELSE @]
    /\ notified' = <<>>
    /\ lastOp' = Op("RemoveKapiData", HasKapi(shoots, ns, pod))
    /\ UNCHANGED <<kapiWatchers, labelHeap, now, setPending, snapshot, callerMap, removedOk,
                   watcherLog, callerLog, getNextLog>>
    /\ UNCHANGED <<pmVars, haVars, scVars, targets, updateQueue, sendBlocked, workerEvent,
                   workerExited, targetLock, candidate, closePc>>

NextClose ==
    \/ \E pod \in Pods : SetKapiDataWatched("ns1", pod)
    \/ ~(CloseReturned /\ workerExited) /\ RemoveKapiDataWatched("ns1", "p1")
    \/ RemoveKapiDataAfterClose("ns1", "p1")
    \/ onKapiUpdatedResume
    \/ processKapiEventsReceive
    \/ processKapiEventsReturn
    \/ processSingleKapiEvent
    \/ GetNextLock
    \/ GetNextCandidate
    \/ GetNextSettle
    \/ \E k \in Closers : CloseCallRemoveKapiWatcher(k)
    \/ \E k \in Closers : CloseCallReturn(k)

SpecClose == InitQueue /\ [][NextClose]_vars

TargetSet(ts) == {ts[i] : i \in 1..Len(ts)}

\* The channel is closed at most once, and nothing is sent to it or waits to be
\* sent to it once it is closed
ChannelNeverMisused ==
    /\ closeCalls'.closes <= 1
    /\ (Len(updateQueue') > Len(updateQueue) \/ (sendBlocked' # NoEvent /\ sendBlocked = NoEvent))
       => (updateQueueOpen /\ ~CloseReturned)

\* The event worker returns only when the channel is closed and every buffered
\* event was applied; after Close the buffer only shrinks
WorkerDrainsThenExits ==
    /\ (workerExited' /\ ~workerExited)
       => (~updateQueueOpen /\ updateQueue = <<>> /\ workerEvent = NoEvent)
    /\ CloseReturned => Len(updateQueue') <= Len(updateQueue)

MaxScrapes == 2
StartTime == MinSampleGap

\* The metrics client's answer: an error, or the counter total
FetchError == -1
FetchOutcomes == {FetchError} \cup (0..MaxCount)

StartOp(name, ok, i, val) == OpV(name, ok, now, [who |-> i, result |-> val])

ScraperStart ==
    /\ startRun.pc = "new"
    /\ startRun' = [startRun EXCEPT !.pc = "select"]
    /\ lastOp' = StartOp("Start", TRUE, 0, 0)
    /\ UNCHANGED <<sc, response, regData, now, notified, pmVars, logVars, haVars, sqVars>>

\* The owner of ctx cancels it
CancelCtx ==
    /\ ~startRun.done
    /\ startRun' = [startRun EXCEPT !.done = TRUE]
    /\ lastOp' = StartOp("cancel", TRUE, 0, 0)
    /\ UNCHANGED <<sc, response, regData, now, notified, pmVars, logVars, haVars, sqVars>>

\* select, case <-ctx.Done(): queue.Close(), break loop; the deferred Wait follows
StartCtxDone ==
    /\ startRun.pc = "select"
    /\ startRun.done
    /\ startRun' = [startRun EXCEPT !.pc = "wait", !.queueClosed = TRUE]
    /\ lastOp' = StartOp("Start.ctxDone", TRUE, 0, 0)
    /\ UNCHANGED <<sc, response, regData, now, notified, pmVars, logVars, haVars, sqVars>>

\* The goroutines started by a shift of count workers
Spawned(run, count) ==
    [run EXCEPT !.waitGroup = @ + count,
                !.spawned = @ + count,
                !.worker = [i \in WorkerIds |->
                              IF i > run.spawned /\ i <= run.spawned + count
                              THEN [NoWorker EXCEPT !.pc = "GetNext", !.ctxErrAtStart = run.done]
                              ELSE run.worker[i]]]

\* select, case <-ticker.C(): startShiftWorkers(ctx); select may take this case
\* also when ctx is done
StartTicker(thisTargets, unprocessed) ==
    /\ startRun.pc = "select"
    /\ \E estimate \in EstimatedWorkerCounts(sc.lastShiftScrapeTargetCount, sc.lastShiftWorkerCount,
                                             unprocessed, thisTargets) :
          LET count == ShiftWorkerCount(sc, unprocessed, estimate)
          IN /\ startRun.spawned + Max(count, 0) <= MaxSpawned
             /\ sc' = [lastShiftStartTime |-> now,
                       lastShiftWorkerCount |-> count,
                       lastShiftScrapeTargetCount |-> thisTargets,
                       activeWorkerCount |-> sc.activeWorkerCount + Max(count, 0)]
             /\ startRun' = Spawned(startRun, Max(count, 0))
             /\ lastOp' = StartOp("startShiftWorkers", count > 0, 0, count)
    /\ UNCHANGED response
    /\ UNCHANGED restOfSc

\* defer s.workerWaitGroup.Wait(), then defer ticker.Stop(), then Start returns
StartReturn ==
    /\ startRun.pc = "wait"
    /\ startRun.waitGroup = 0
    /\ startRun' = [startRun EXCEPT !.pc = "returned"]
    /\ lastOp' = StartOp("Start.return", TRUE, 0, sc.activeWorkerCount)
    /\ UNCHANGED <<sc, response, regData, now, notified, pmVars, logVars, haVars, sqVars>>

\* ScrapeQueue: target := s.queue.GetNext(); the loop ends on nil
ScrapeQueueGetNext(i, target) ==
    /\ startRun.worker[i].pc = "GetNext"
    /\ target # NoTarget => startRun.worker[i].scrapes < MaxScrapes
    /\ startRun' = [startRun EXCEPT !.worker[i].target = target,
                                    !.worker[i].pc = IF target = NoTarget THEN "deferAdd"
                                                     ELSE "ctxErr"]
    /\ lastOp' = OpOn("GetNext", target # NoTarget, now, [who |-> i, result |-> 0],
                      IF target = NoTarget THEN <<>> ELSE <<target.Namespace, target.PodName>>)
    /\ UNCHANGED <<sc, response, regData, now, notified, pmVars, logVars, haVars, sqVars>>

\* Mutant: the loop does not look at the context
LoopGoesOnRegardless(done) == TRUE

\* ScrapeQueue's loop condition, second half: ctx.Err() == nil
LoopGoesOn(done) == ~done

\* ScrapeQueue: the loop condition with a target in hand, then the call of scrape
ScrapeQueueCtxErr(i) ==
    /\ startRun.worker[i].pc = "ctxErr"
    /\ startRun' = IF LoopGoesOn(startRun.done)
                   THEN [startRun EXCEPT !.worker[i].pc = "scrape", !.worker[i].scrapes = @ + 1]
                   ELSE [startRun EXCEPT !.worker[i].pc = "deferAdd"]
    /\ lastOp' = StartOp("ctx.Err", LoopGoesOn(startRun.done), i, 0)
    /\ UNCHANGED <<sc, response, regData, now, notified, pmVars, logVars, haVars, sqVars>>

\* Mutant: a missing token does not stop the scrape
scrapeInputsMissingButToken(sh, target) ==
    \/ ~HasKapi(sh, target.Namespace, target.PodName)
    \/ sh[target.Namespace].CACertPool = NoCA

\* scrape: kapi == nil, authToken == "" or caCert == nil
scrapeInputsMissing(sh, target) ==
    \/ ~HasKapi(sh, target.Namespace, target.PodName)
    \/ sh[target.Namespace].AuthSecret = ""
    \/ sh[target.Namespace].CACertPool = NoCA

\* scrape, the registry reads: GetKapiData, GetShootAuthSecret, GetShootCACertificate
scrapeRead(i) ==
    /\ startRun.worker[i].pc = "scrape"
    /\ startRun' = [startRun EXCEPT !.worker[i].pc =
                       IF scrapeInputsMissing(shoots, startRun.worker[i].target)
                       THEN "GetNext" ELSE "fetch"]
    /\ lastOp' = OpOn("scrape.read", ~scrapeInputsMissing(shoots, startRun.worker[i].target),
                      now, [who |-> i, result |-> 0],
                      <<startRun.worker[i].target.Namespace, startRun.worker[i].target.PodName>>)
    /\ UNCHANGED <<sc, response, regData, now, notified, pmVars, logVars, haVars, sqVars>>

\* scrape, GetKapiInstanceMetrics under the timeout context and what follows:
\* NotifyKapiMetricsFault on an error, SetKapiMetrics otherwise
scrapeFetch(i, outcome) ==
    LET t == startRun.worker[i].target
    IN /\ startRun.worker[i].pc = "fetch"
       /\ (outcome = FetchError /\ HasKapi(shoots, t.Namespace, t.PodName))
          => getKapiDataThreadUnsafe(shoots, t.Namespace, t.PodName).FaultCount < MaxFault
       /\ shoots' = IF outcome = FetchError
                    THEN NotifyKapiMetricsFaultShoots(shoots, t.Namespace, t.PodName)
                    ELSE SetKapiMetricsShoots(shoots, t.Namespace, t.PodName, outcome, now)
       /\ startRun' = [startRun EXCEPT !.worker[i].pc = "GetNext"]
       /\ lastOp' = OpOn("scrape.fetch", outcome # FetchError, now,
                         [who |-> i, result |-> outcome], <<t.Namespace, t.PodName>>)
       /\ notified' = <<>>
       /\ UNCHANGED <<sc, response, kapiWatchers, labelHeap, now, setPending, snapshot, callerMap,
                      removedOk, watcherLog, pmVars, logVars, haVars, sqVars>>

\* Mutant: the deferred decrement is left out
ActiveAfterWorker(n) == n

\* defer s.activeWorkerCount.Add(-1)
activeWorkerCountAdd(n) == n - 1

\* workerProc's deferred calls run last registered first: activeWorkerCount.Add(-1)
workerProcDeferAdd(i) ==
    /\ startRun.worker[i].pc = "deferAdd"
    /\ sc' = [sc EXCEPT !.activeWorkerCount = activeWorkerCountAdd(@)]
    /\ startRun' = [startRun EXCEPT !.worker[i].pc = "deferDone"]
    /\ lastOp' = StartOp("activeWorkerCount.Add", TRUE, i, -1)
    /\ UNCHANGED response
    /\ UNCHANGED restOfSc

\* ... then workerWaitGroup.Done(), and the goroutine ends
workerProcDeferDone(i) ==
    /\ startRun.worker[i].pc = "deferDone"
    /\ startRun' = [startRun EXCEPT !.worker[i].pc = "exited", !.waitGroup = @ - 1]
    /\ lastOp' = StartOp("workerWaitGroup.Done", TRUE, i, 0)
    /\ UNCHANGED <<sc, response, regData, now, notified, pmVars, logVars, haVars, sqVars>>

\* A registry holding the target, its shoot's token and CA certificate
ScrapableShoots ==
    SetShootCACertificateShoots(
        SetShootAuthSecretShoots(
            SetKapiDataShoots([ns \in Namespaces |-> NoShootData],
                              "ns1", SamplePod, "u1", NilMap, "url1"),
            "ns1", "token1"),
        "ns1", "pem1")

InitStart ==
    /\ shoots = ScrapableShoots
    /\ kapiWatchers = <<>>
    /\ labelHeap = <<>>
    /\ now = StartTime
    /\ setPending = [c \in Callers |-> NoPending]
    /\ snapshot = <<>>
    /\ callerMap = NilMap
    /\ lastOp = Op("init", TRUE)
    /\ notified = <<>>
    /\ removedOk = {}
    /\ watcherLog = <<>>
    /\ callerLog = NewCallerLog("mixed")
    /\ getNextLog = NewGetNextLog
    /\ closeCalls = NoCloseCalls
    /\ pm = newPacemaker(0, 0)
    /\ InitHAService
    /\ InitScraper
    /\ InitScrapeQueue
    /\ updateQueue = <<>>

NextStart ==
    \/ ScraperStart
    \/ CancelCtx
    \/ StartCtxDone
    \/ \E thisTargets \in 0..MaxDueCount, unprocessed \in 0..MaxDueCount :
          /\ unprocessed <= sc.lastShiftScrapeTargetCount
          /\ StartTicker(thisTargets, unprocessed)
    \/ StartReturn
    \/ \E i \in WorkerIds, target \in {NoTarget, scrapeTarget("ns1", SamplePod)} :
          ScrapeQueueGetNext(i, target)
    \/ \E i \in WorkerIds : ScrapeQueueCtxErr(i)
    \/ \E i \in WorkerIds : scrapeRead(i)
    \/ \E i \in WorkerIds, outcome \in FetchOutcomes : scrapeFetch(i, outcome)
    \/ \E i \in WorkerIds : workerProcDeferAdd(i)
    \/ \E i \in WorkerIds : workerProcDeferDone(i)

SpecStart == InitStart /\ [][NextStart]_vars

\* C25: Start has not returned unless ctx was cancelled; it closes the queue only
\* after the cancellation and leaves its loop only then; and when it has returned,
\* every goroutine any shift started has ended and activeWorkerCount is zero.
C25_StartReturnsAfterWorkers ==
    /\ startRun.queueClosed => startRun.done
    /\ startRun.pc \in {"wait", "returned"} => (startRun.done /\ startRun.queueClosed)
    /\ startRun.pc = "returned"
       => /\ \A i \in WorkerIds : startRun.worker[i].pc \in {"none", "exited"}
          /\ startRun.waitGroup = 0
          /\ sc.activeWorkerCount = 0

\* Start has returned after two shifts of one worker each, the second started
\* after the cancellation, the first having scraped
C25_Witness ==
    /\ startRun.pc = "returned"
    /\ startRun.spawned = 2
    /\ sc.lastShiftWorkerCount = 1
    /\ startRun.worker[1].scrapes > 0
    /\ startRun.worker[2].ctxErrAtStart
    /\ \A i \in WorkerIds : startRun.worker[i].pc = "exited"

\* The positions of a goroutine that has left ScrapeQueue's loop
Leaving == {"deferAdd", "deferDone", "exited"}

\* C26: a worker whose GetNext returned nil leaves the loop at once and never comes
\* back to it; a scrape is started only while ctx is not cancelled, so after the
\* cancellation a worker at most finishes the scrape it is in; and a worker started
\* with a cancelled ctx never calls scrape.
C26_WorkerStopsOnNilOrCancel ==
    [][/\ (lastOp'.name = "GetNext" /\ ~lastOp'.ok)
          => startRun'.worker[lastOp'.val.who].pc = "deferAdd"
       /\ \A i \in WorkerIds :
             /\ startRun.worker[i].pc \in Leaving => startRun'.worker[i].pc \in Leaving
             /\ startRun'.worker[i].scrapes > startRun.worker[i].scrapes => ~startRun.done
             /\ (startRun.done /\ startRun'.worker[i].pc \in {"scrape", "fetch"})
                => startRun.worker[i].pc \in {"scrape", "fetch"}
             /\ startRun'.worker[i].ctxErrAtStart => startRun'.worker[i].scrapes = 0]_vars

\* After the cancellation a worker that had scraped took one more target from the
\* queue and left without scraping it, and a worker started after the cancellation
\* has ended
C26_Witness ==
    /\ lastOp.name = "ctx.Err" /\ ~lastOp.ok
    /\ lastOp.val.who = 1
    /\ startRun.worker[1].scrapes > 0
    /\ startRun.worker[1].pc = "deferAdd"
    /\ startRun.worker[2].ctxErrAtStart
    /\ startRun.worker[2].pc = "exited"

\* ------------------------------------------------------------------------
\* Specification SpecScrape: one worker of a first shift scraping, while the
\* registry, empty at first, has its target, token and CA certificate set and
\* removed and time passes
\* ------------------------------------------------------------------------
ScrapeWorker == 1

\* The Scraper after Start's first shift of one worker
InitScrape ==
    /\ shoots = [ns \in Namespaces |-> NoShootData]
    /\ kapiWatchers = <<>>
    /\ InitCallers
    /\ pm = newPacemaker(0, 0)
    /\ InitHAService
    /\ sc = [lastShiftStartTime |-> now, lastShiftWorkerCount |-> 1,
             lastShiftScrapeTargetCount |-> 1, activeWorkerCount |-> 1]
    /\ startRun = Spawned([NewStartRun EXCEPT !.pc = "select"], 1)
    /\ response = NoResponse
    /\ InitScrapeQueue
    /\ updateQueue = <<>>

NextScrape ==
    \/ Tick
    \/ SetKapiData("ns1", SamplePod, "u1", NilMap, "url1")
    \/ RemoveKapiData("ns1", SamplePod)
    \/ \E authSecret \in {"", "token1"} : SetShootAuthSecret("ns1", authSecret)
    \/ \E certificate \in {NilCertificate, "pem1"} : SetShootCACertificate("ns1", certificate)
    \/ \E target \in {NoTarget, scrapeTarget("ns1", SamplePod)} :
          ScrapeQueueGetNext(ScrapeWorker, target)
    \/ ScrapeQueueCtxErr(ScrapeWorker)
    \/ scrapeRead(ScrapeWorker)
    \/ \E outcome \in FetchOutcomes : scrapeFetch(ScrapeWorker, outcome)
    \/ workerProcDeferAdd(ScrapeWorker)
    \/ workerProcDeferDone(ScrapeWorker)

SpecScrape == InitScrape /\ [][NextScrape]_vars

\* The two samples a target's record holds
SamplePair(k) ==
    <<k.MetricsTimeOld, k.TotalRequestCountOld, k.MetricsTimeNew, k.TotalRequestCountNew>>

RegistryMutators ==
    {"SetKapiData", "RemoveKapiData", "SetShootAuthSecret", "SetShootCACertificate"}

C27_WitnessFault ==
    /\ lastOp.name = "scrape.fetch" /\ ~lastOp.ok
    /\ HasKapi(shoots, "ns1", SamplePod)
    /\ KapiOf("ns1", SamplePod).FaultCount = 2

\* A scrape has ended at the reads: the target is on record, its shoot has a CA
\* certificate and no token
C27_WitnessSkipped ==
    /\ lastOp.name = "scrape.read" /\ ~lastOp.ok
    /\ HasKapi(shoots, "ns1", SamplePod)
    /\ shoots["ns1"].AuthSecret = ""
    /\ shoots["ns1"].CACertPool # NoCA
    /\ startRun.worker[ScrapeWorker].pc = "GetNext"

\* ------------------------------------------------------------------------
\* Specification SpecProvider: the MetricsProvider reading a registry whose
\* target receives samples while time passes
\* ------------------------------------------------------------------------
MaxProviderTime == 7
MaxProviderCount == 2

\* maxSampleAge and maxSampleGap, in clock ticks (scaled)
maxSampleAge == 2
maxSampleGap == 3

metricName == "shoot:apiserver_request_total:sum"
MetricNames == {metricName, "other"}

\* Mutant: the age of the newest sample is not looked at
SampleServedAtAnyAge(k, t) ==
    LET gap == TimeSub(k.MetricsTimeNew, k.MetricsTimeOld)
    IN gap # 0 /\ ~(gap > maxSampleGap)

\* The three `continue` tests of getMetricByPredicate, TimeNow() being t
SampleServed(k, t) ==
    LET gap == TimeSub(k.MetricsTimeNew, k.MetricsTimeOld)
    IN /\ gap # 0
       /\ ~(gap > maxSampleGap)
       /\ ~(k.MetricsTimeNew < t - maxSampleAge)

\* Mutant: the conversion rounds to the nearest integer
Int64OfQuotientRounded(a, b) == (2 * a + b) \div (2 * b)

\* int64(x) for a float64 x >= 0 given as the quotient a / b: the fraction is dropped
Int64OfQuotient(a, b) == a \div b

\* int64(requestRate*1000), requestRate being float64(new - old) / gap.Seconds().
\* For the operands of the model the float64 product has the integer part of the
\* exact quotient.
MilliValue(k) ==
    Int64OfQuotient((k.TotalRequestCountNew - k.TotalRequestCountOld) * 1000,
                    TimeSub(k.MetricsTimeNew, k.MetricsTimeOld))

\* The rate times 1000, rounded to the nearest integer (half up)
NearestMilli(k) ==
    LET gap == TimeSub(k.MetricsTimeNew, k.MetricsTimeOld)
    IN (2 * (k.TotalRequestCountNew - k.TotalRequestCountOld) * 1000 + gap) \div (2 * gap)

MetricValue(k) ==
    [Name |-> k.podName, Namespace |-> k.shootNamespace, UID |-> k.PodUID,
     Value |-> MilliValue(k), Timestamp |-> k.MetricsTimeNew,
     WindowSeconds |-> TimeSub(k.MetricsTimeNew, k.MetricsTimeOld)]

RECURSIVE MetricValues(_, _, _)
\* getMetricByPredicate's loop over dataSource.GetShootKapis(namespace), the
\* predicate being kapi.PodName() == name
MetricValues(kd, name, t) ==
    IF kd = <<>> THEN <<>>
    ELSE IF Head(kd).podName = name /\ SampleServed(Head(kd), t)
         THEN <<MetricValue(Head(kd))>> \o MetricValues(Tail(kd), name, t)
         ELSE MetricValues(Tail(kd), name, t)

getMetricByPredicate(sh, ns, name, metric, t) ==
    IF metric # metricName THEN <<>>
    ELSE MetricValues(GetShootKapisResult(sh, ns), name, t)

MultipleMetricsError == "multiple metrics found with that name"

\* What GetMetricByName does with metrics.Items: (nil, nil) for no item, an error
\* and no value for several, else the item; ok tells a value from nil
GetMetricByNameResult(items) ==
    IF Len(items) = 0 THEN [ok |-> FALSE, value |-> 0, err |-> ""]
    ELSE IF Len(items) > 1 THEN [ok |-> FALSE, value |-> 0, err |-> MultipleMetricsError]
    ELSE [ok |-> TRUE, value |-> items[1].Value, err |-> ""]

GetMetricByName(ns, name, metric) ==
    LET items == getMetricByPredicate(shoots, ns, name, metric, now)
        result == GetMetricByNameResult(items)
    IN /\ lastOp' = OpOn("GetMetricByName", result.ok, now, result.value,
                         <<ns, name, metric, result.err>>)
       /\ notified' = <<>>
       /\ UNCHANGED <<shoots, kapiWatchers, labelHeap, now, setPending, snapshot, callerMap,
                      removedOk, watcherLog>>
       /\ UNCHANGED restOfReg

ProviderTick ==
    /\ now < MaxProviderTime
    /\ now' = now + 1
    /\ lastOp' = Op("Tick", TRUE)
    /\ notified' = <<>>
    /\ UNCHANGED <<shoots, kapiWatchers, labelHeap, setPending, snapshot, callerMap, removedOk, watcherLog>>
    /\ UNCHANGED restOfReg

NextProvider ==
    \/ ProviderTick
    \/ SetKapiData("ns1", SamplePod, "u1", NilMap, "url1")
    \/ RemoveKapiData("ns1", SamplePod)
    \/ \E count \in 0..MaxProviderCount : SetKapiMetricsBegin(TenantCaller, "ns1", SamplePod, count)
    \/ SetKapiMetricsLocked(TenantCaller)
    \/ \E pod \in Pods, metric \in MetricNames : GetMetricByName("ns1", pod, metric)

SpecProvider == InitRegistry /\ [][NextProvider]_vars

\* C28: a request for the metric by a target's name gets a value exactly when the
\* target is on record, the gap between its two samples is not zero and not above
\* maxSampleGap, and its newest sample is not older than maxSampleAge; so no value
\* is served for a target with fewer than two accepted samples or whose newest
\* sample is older than maxSampleAge.
C28_ServedIffFreshPair ==
    [][(lastOp'.name = "GetMetricByName" /\ lastOp'.arg[3] = metricName)
       => LET ns == lastOp'.arg[1]
              pod == lastOp'.arg[2]
              k == getKapiDataThreadUnsafe(shoots, ns, pod)
              gap == TimeSub(k.MetricsTimeNew, k.MetricsTimeOld)
          IN /\ lastOp'.ok = (/\ HasKapi(shoots, ns, pod)
                              /\ gap # 0
                              /\ gap <= maxSampleGap
                              /\ k.MetricsTimeNew >= now - maxSampleAge)
             /\ lastOp'.ok => (/\ k.MetricsTimeOld # ZeroTime
                               /\ k.MetricsTimeNew # ZeroTime
                               /\ now - k.MetricsTimeNew <= maxSampleAge)]_vars

\* The target holds two samples close enough to each other, and is not served
\* because the newer one has aged out
C28_Witness ==
    /\ lastOp.name = "GetMetricByName" /\ ~lastOp.ok
    /\ SubSeq(lastOp.arg, 1, 3) = <<"ns1", SamplePod, metricName>>
    /\ HasKapi(shoots, "ns1", SamplePod)
    /\ KapiOf("ns1", SamplePod).MetricsTimeOld # ZeroTime
    /\ TimeSub(KapiOf("ns1", SamplePod).MetricsTimeNew, KapiOf("ns1", SamplePod).MetricsTimeOld)
          <= maxSampleGap
    /\ now - KapiOf("ns1", SamplePod).MetricsTimeNew > maxSampleAge

\* A value is served for the target, at the largest admitted gap and age
C28_WitnessServed ==
    /\ lastOp.name = "GetMetricByName" /\ lastOp.ok
    /\ TimeSub(KapiOf("ns1", SamplePod).MetricsTimeNew, KapiOf("ns1", SamplePod).MetricsTimeOld)
          = maxSampleGap
    /\ now - KapiOf("ns1", SamplePod).MetricsTimeNew = maxSampleAge

\* The target is not served: its samples are further apart than maxSampleGap
C28_WitnessGap ==
    /\ lastOp.name = "GetMetricByName" /\ ~lastOp.ok
    /\ SubSeq(lastOp.arg, 1, 3) = <<"ns1", SamplePod, metricName>>
    /\ HasKapi(shoots, "ns1", SamplePod)
    /\ KapiOf("ns1", SamplePod).MetricsTimeOld # ZeroTime
    /\ TimeSub(KapiOf("ns1", SamplePod).MetricsTimeNew, KapiOf("ns1", SamplePod).MetricsTimeOld)
          > maxSampleGap
    /\ now = KapiOf("ns1", SamplePod).MetricsTimeNew

C29_WitnessExact ==
    /\ lastOp.name = "GetMetricByName" /\ lastOp.ok
    /\ lastOp.val = 1000
    /\ TimeSub(KapiOf("ns1", SamplePod).MetricsTimeNew, KapiOf("ns1", SamplePod).MetricsTimeOld) = 2

\* ------------------------------------------------------------------------
\* Specification SpecParse: getTotalRequestCount applied to response bodies of
\* one or two lines. A line is a sequence of characters; the counter name is
\* written as one character, int64 is scaled to two decimal digits.
\* ------------------------------------------------------------------------
MaxLineLen == 5

\* metricName of the metrics client, "apiserver_request_total", as one character
CounterName == "apiserver_request_total"
NUL == "NUL"
Digits == {"0", "7"}
Chars == {CounterName, " ", "{", "}", "e", "x", NUL} \cup Digits

\* math.MaxInt64 and math.MinInt64 (scaled)
MaxInt64 == 99
MinInt64 == -MaxInt64 - 1

\* int64 addition wraps around
WrapInt64(x) == ((x - MinInt64) % (2 * (MaxInt64 + 1))) + MinInt64

\* The largest decimal exponent of a float64
MaxFloatExp == 308

Lines == UNION {[1..n -> Chars] : n \in 0..MaxLineLen}

\* str[i] of Go, i counted from 0
At(str, i) == str[i + 1]

\* str[i:j] of Go
Slice(str, i, j) == [n \in 1..(j - i) |-> str[i + n]]

isSpace(str, i) == At(str, i) = " "

RECURSIVE skipSpace(_, _)
\* the index of the first non whitespace character from i on, or one-past-end
skipSpace(str, i) ==
    IF i < Len(str) /\ isSpace(str, i) THEN skipSpace(str, i + 1) ELSE i

RECURSIVE IndexFrom(_, _, _)
\* the first index from i on at which a character of the set stands, or one-past-end
IndexFrom(str, i, cs) ==
    IF i < Len(str) /\ At(str, i) \notin cs THEN IndexFrom(str, i + 1, cs) ELSE i

Contains(str, c) == \E n \in 1..Len(str) : str[n] = c

IsDigits(str) == str # <<>> /\ \A n \in 1..Len(str) : str[n] \in Digits

RECURSIVE Decimal(_)
Decimal(str) ==
    IF str = <<>> THEN 0
    ELSE 10 * Decimal(Slice(str, 0, Len(str) - 1)) + (IF str[Len(str)] = "7" THEN 7 ELSE 0)

\* strconv.ParseInt(valueString, 10, 64): [err, value]
ParseInt(str) ==
    IF IsDigits(str) /\ Decimal(str) <= MaxInt64
    THEN [err |-> FALSE, value |-> Decimal(str)]
    ELSE [err |-> TRUE, value |-> 0]

\* strconv.ParseFloat(valueString, 64) of a string holding "e": digits, "e", digits;
\* the float is mant * 10^exp; a value beyond the float64 range is an error
ParseFloat(str) ==
    LET e == IndexFrom(str, 0, {"e"})
        mant == Slice(str, 0, e)
        exp == Slice(str, e + 1, Len(str))
    IN IF IsDigits(mant) /\ IsDigits(exp)
          /\ (Decimal(mant) = 0 \/ Decimal(exp) <= MaxFloatExp)
       THEN [err |-> FALSE, mant |-> Decimal(mant), exp |-> Decimal(exp)]
       ELSE [err |-> TRUE, mant |-> 0, exp |-> 0]

\* int64(floatValue): the value if it fits; otherwise the conversion's result is
\* implementation-dependent (the lowest int64 on amd64, the highest on arm64)
Int64OfFloat(f) ==
    IF f.mant = 0 THEN {0}
    ELSE IF f.exp = 0 /\ f.mant <= MaxInt64 THEN {f.mant}
    ELSE IF f.exp = 1 /\ f.mant * 10 <= MaxInt64 THEN {f.mant * 10}
    ELSE {MinInt64, MaxInt64}

Malformed == [kind |-> "malformed", value |-> 0]
Panic == [kind |-> "panic", value |-> 0]
Value(v) == [kind |-> "value", value |-> v]

\* parseLine, from the value section on; i is past the name and the labels
parseLineValue(line, i0) ==
    LET i == skipSpace(line, i0)
    IN IF i >= Len(line) THEN {Malformed}
       ELSE LET valueEnd == IndexFrom(line, i + 1, {" "})
                valueString == Slice(line, i, valueEnd)
            IN IF Contains(valueString, "e")
               THEN IF ParseFloat(valueString).err THEN {Malformed}
                    ELSE {Value(v) : v \in Int64OfFloat(ParseFloat(valueString))}
               ELSE IF ParseInt(valueString).err THEN {Malformed}
                    ELSE {Value(ParseInt(valueString).value)}

\* parseLine(line): the results the call can have; line[i] with i one-past-end
\* is a run-time panic
parseLine(line) ==
    IF 1 >= Len(line) THEN {Malformed}
    ELSE LET i == skipSpace(line, 1)
         IN IF i >= Len(line) THEN {Panic}
            ELSE IF At(line, i) = "{"
            THEN LET close == IndexFrom(line, i + 1, {"}"})
                 IN IF close = Len(line) THEN {Malformed}
                    ELSE parseLineValue(line, close + 1)
            ELSE parseLineValue(line, i)

\* getTotalRequestCount's treatment of leading whitespace
Stripped(line) ==
    IF Len(line) > 0 /\ isSpace(line, 0)
    THEN Slice(line, skipSpace(line, 1), Len(line))
    ELSE line

HasPrefixCounterName(line) == Len(line) > 0 /\ line[1] = CounterName

RECURSIVE getTotalRequestCountFrom(_, _, _)
\* getTotalRequestCount's loop over the lines read, then its return
getTotalRequestCountFrom(lines, totalRequestCount, isCounterFound) ==
    IF lines = <<>>
    THEN IF isCounterFound THEN {[kind |-> "sum", value |-> totalRequestCount]}
         ELSE {[kind |-> "nocounters", value |-> 0]}
    ELSE IF ~HasPrefixCounterName(Stripped(Head(lines)))
    THEN getTotalRequestCountFrom(Tail(lines), totalRequestCount, isCounterFound)
    ELSE UNION {IF r.kind = "value"
                THEN getTotalRequestCountFrom(Tail(lines),
                                              WrapInt64(totalRequestCount + r.value), TRUE)
                ELSE {r} : r \in parseLine(Stripped(Head(lines)))}

getTotalRequestCount(body) == getTotalRequestCountFrom(body, 0, FALSE)

\* Lines a response may hold before the line under study
SampleLines ==
    {<<CounterName, " ", "7">>, <<"x", " ", "7">>, <<CounterName, "{", "x", "}", " ", "7", "7">>}

\* The response gets a line in front of the first
ResponsePrepend(line) ==
    /\ response.pc = "body"
    /\ Len(response.body) = 1
    /\ response' = [response EXCEPT !.body = <<line>> \o @]
    /\ lastOp' = Op("response", TRUE)
    /\ UNCHANGED <<sc, startRun, regData, now, notified, pmVars, logVars, haVars, sqVars>>

\* GetKapiInstanceMetrics hands the body to getTotalRequestCount
ParseResponse ==
    /\ response.pc = "body"
    /\ \E r \in getTotalRequestCount(response.body) :
          /\ response' = [response EXCEPT !.pc = "done", !.kind = r.kind, !.value = r.value]
          /\ lastOp' = OpV("getTotalRequestCount", r.kind = "sum", ZeroTime, r.value)
    /\ UNCHANGED <<sc, startRun, regData, now, notified, pmVars, logVars, haVars, sqVars>>

InitParse ==
    /\ shoots = [ns \in Namespaces |-> NoShootData]
    /\ kapiWatchers = <<>>
    /\ InitCallers
    /\ pm = newPacemaker(0, 0)
    /\ InitHAService
    /\ sc = NewScraper
    /\ startRun = NewStartRun
    /\ \E line \in Lines : response = [NoResponse EXCEPT !.body = <<line>>, !.pc = "body"]
    /\ InitScrapeQueue
    /\ updateQueue = <<>>

NextParse ==
    \/ \E line \in SampleLines : ResponsePrepend(line)
    \/ ParseResponse

SpecParse == InitParse /\ [][NextParse]_vars

\* The line under study: the last of the body, as parseLine gets it
StudiedLine == Stripped(response.body[Len(response.body)])

\* The line holds the counter name followed by whitespace only
NameThenOnlySpace(line) ==
    /\ HasPrefixCounterName(line)
    /\ Len(line) > 1
    /\ \A n \in 2..Len(line) : line[n] = " "

\* The line's labels block is not closed
UnterminatedLabels(line) ==
    /\ HasPrefixCounterName(line)
    /\ skipSpace(line, 1) < Len(line)
    /\ At(line, skipSpace(line, 1)) = "{"
    /\ ~Contains(line, "}")

\* C30: for every body getTotalRequestCount ends with a sum or an error, never a
\* crash; and a counter line that holds a NUL byte, has an unterminated labels
\* block or has the counter name followed by whitespace only gives a Malformed
\* error with result 0.
C30_MalformedLineGivesError ==
    response.pc = "done"
    => /\ response.kind \in {"sum", "malformed", "nocounters"}
       /\ response.kind # "sum" => response.value = 0
       /\ (HasPrefixCounterName(StudiedLine)
           /\ (\/ Contains(StudiedLine, NUL)
               \/ UnterminatedLabels(StudiedLine)
               \/ NameThenOnlySpace(StudiedLine)))
          => response.kind = "malformed"

\* ------------------------------------------------------------------------
\* Specification SpecBackoff: the retry loop of HAService.Start with the periods it
\* hands to TimeAfter; setEndpoints and cleanUpServiceEndpoints are taken as calls
\* that succeed or fail
\* ------------------------------------------------------------------------
MaxRetries == 11

\* retryPeriod := 1 * time.Second; maxRetryPeriod := 5 * time.Minute, in seconds
initialRetryPeriod == 1
maxRetryPeriod == 300

NoError == ""
\* fmt.Errorf("starting HA service: %w", ctx.Err())
StartingError == "starting HA service: context canceled"
CtxErr == "context canceled"
CleanUpError == "HA cleanup failed"

\* retryPeriod, attempts (the calls of setEndpoints made), retries (the waits that
\* ended with the timer), waited (the period of the latest of them) are what Start and
\* the TimeAfter it was given have seen; err is what Start returns
NotStarted == [pc |-> "idle", cancelled |-> FALSE, retryPeriod |-> 0, attempts |-> 0,
               retries |-> 0, waited |-> 0, err |-> NoError]

\* retryPeriod *= 2 without the ceiling
retryPeriodUncapped(retryPeriod) == retryPeriod * 2

\* retryPeriod *= 2; if retryPeriod > maxRetryPeriod { retryPeriod = maxRetryPeriod }
retryPeriodDoubled(retryPeriod) ==
    IF retryPeriod * 2 > maxRetryPeriod THEN maxRetryPeriod ELSE retryPeriod * 2

BackoffOp(name, ok, r) == OpV(name, ok, ZeroTime, [who |-> r, result |-> ha[r].retryPeriod])

\* The manager runs Start when the process becomes the leader
StartBegin(r) ==
    /\ leader = NoReplica
    /\ ha[r].pc = "idle"
    /\ leader' = r
    /\ ha' = [ha EXCEPT ![r].pc = "setEndpoints", ![r].retryPeriod = initialRetryPeriod]
    /\ lastOp' = BackoffOp("Start", TRUE, r)
    /\ UNCHANGED <<endpoints, endpointsCache, apiSeq>>
    /\ UNCHANGED restOfHa

\* err := ha.setEndpoints(ctx), as the loop's init or post statement; with the context
\* cancelled the API calls fail
StartSetEndpoints(r, ok) ==
    /\ ha[r].pc = "setEndpoints"
    /\ ha[r].cancelled => ~ok
    /\ ha' = [ha EXCEPT ![r].pc = IF ok THEN "serving" ELSE "select",
                        ![r].attempts = @ + 1]
    /\ lastOp' = BackoffOp("setEndpoints", ok, r)
    /\ UNCHANGED <<leader, endpoints, endpointsCache, apiSeq>>
    /\ UNCHANGED restOfHa

\* case <-ha.testIsolation.TimeAfter(retryPeriod): the timer, created on entry to the
\* select, fires while the context is live; then the period doubles up to the ceiling
StartTimeAfter(r) ==
    /\ ha[r].pc = "select"
    /\ ~ha[r].cancelled
    /\ ha[r].retries < MaxRetries
    /\ ha' = [ha EXCEPT ![r].pc = "setEndpoints",
                        ![r].waited = ha[r].retryPeriod,
                        ![r].retries = @ + 1,
                        ![r].retryPeriod = retryPeriodDoubled(@)]
    /\ lastOp' = BackoffOp("TimeAfter", TRUE, r)
    /\ UNCHANGED <<leader, endpoints, endpointsCache, apiSeq>>
    /\ UNCHANGED restOfHa

\* case <-ctx.Done() in the loop: _ = ha.cleanUpServiceEndpoints(); return the
\* wrapped ctx.Err()
StartAbort(r) ==
    /\ ha[r].pc = "select"
    /\ ha[r].cancelled
    /\ ha' = [ha EXCEPT ![r].pc = "returned", ![r].err = StartingError]
    /\ lastOp' = BackoffOp("ctx.Done", FALSE, r)
    /\ UNCHANGED <<leader, endpoints, endpointsCache, apiSeq>>
    /\ UNCHANGED restOfHa

\* <-ctx.Done() after the loop: err := ha.cleanUpServiceEndpoints();
\* if err == nil { err = ctx.Err() }; return err
StartEnd(r, cleanUpErr) ==
    /\ ha[r].pc = "serving"
    /\ ha[r].cancelled
    /\ ha' = [ha EXCEPT ![r].pc = "returned",
                        ![r].err = IF cleanUpErr = NoError THEN CtxErr ELSE cleanUpErr]
    /\ lastOp' = BackoffOp("cleanUpServiceEndpoints", cleanUpErr = NoError, r)
    /\ UNCHANGED <<leader, endpoints, endpointsCache, apiSeq>>
    /\ UNCHANGED restOfHa

\* Start has returned; the process ends and the replica comes back as a new process
StartReturned(r) ==
    /\ ha[r].pc = "returned"
    /\ ha' = [ha EXCEPT ![r] = NotStarted]
    /\ lastOp' = BackoffOp("ProcessRestart", TRUE, r)
    /\ UNCHANGED <<leader, endpoints, endpointsCache, apiSeq>>
    /\ UNCHANGED restOfHa

InitBackoff ==
    /\ shoots = [ns \in Namespaces |-> NoShootData]
    /\ kapiWatchers = <<>>
    /\ InitCallers
    /\ pm = newPacemaker(0, 0)
    /\ InitScraper
    /\ InitScrapeQueue
    /\ updateQueue = <<>>
    /\ leader = NoReplica
    /\ ha = [r \in Replicas |-> NotStarted]
    /\ endpoints = NoEndpoints
    /\ endpointsCache = NoEndpoints
    /\ apiSeq = 0

NextBackoff ==
    \/ \E r \in Replicas : StartBegin(r)
    \/ \E r \in Replicas : LeadershipLost(r)
    \/ \E r \in Replicas, ok \in BOOLEAN : StartSetEndpoints(r, ok)
    \/ \E r \in Replicas : StartTimeAfter(r)
    \/ \E r \in Replicas : StartAbort(r)
    \/ \E r \in Replicas, cleanUpErr \in {NoError, CleanUpError} : StartEnd(r, cleanUpErr)
    \/ \E r \in Replicas : StartReturned(r)

SpecBackoff == InitBackoff /\ [][NextBackoff]_vars

RECURSIVE Pow2(_)
Pow2(n) == IF n = 0 THEN 1 ELSE 2 * Pow2(n - 1)

\* C31: Start calls setEndpoints again after every failed attempt for as long as the
\* context is live, and never after a successful one; the period handed to TimeAfter
\* for the k-th retry is min(2^(k-1) s, 300 s); and once the context is cancelled
\* while Start waits, the wait ends with Start returning the wrapped context error,
\* no further setEndpoints call having been made.
C31_BackoffDoublesToCeiling ==
    [][\A r \in Replicas :
          /\ ha[r].pc = "select"
             => /\ ha[r].retryPeriod = Min(Pow2(ha[r].retries), maxRetryPeriod)
                /\ ha[r].attempts = ha[r].retries + 1
          /\ (ha[r].pc = "select" /\ ha'[r].pc # "select")
             => IF ha[r].cancelled
                THEN /\ ha'[r].pc = "returned"
                     /\ ha'[r].err = StartingError
                     /\ ha'[r].attempts = ha[r].attempts
                ELSE /\ ha'[r].pc = "setEndpoints"
                     /\ ha'[r].retries = ha[r].retries + 1
                     /\ ha'[r].waited = Min(Pow2(ha'[r].retries - 1), maxRetryPeriod)
          /\ ha'[r].attempts > ha[r].attempts => ha[r].pc = "setEndpoints"
          /\ (ha'[r].pc = "setEndpoints" /\ ha[r].pc # "setEndpoints")
             => ha[r].pc = "idle" \/ (ha[r].pc = "select" /\ ~ha[r].cancelled)
          /\ ha[r].pc = "serving" => ha'[r].attempts <= ha[r].attempts]_vars

\* The tenth retry came after the ceiling of 300 s, not after 512 s
C31_Witness ==
    \E r \in Replicas :
       /\ ha[r].pc = "setEndpoints"
       /\ ha[r].retries = 10
       /\ ha[r].waited = maxRetryPeriod
       /\ lastOp.name = "TimeAfter"

\* Start gave up during its third wait, the context having been cancelled
C31_WitnessCancelled ==
    \E r \in Replicas :
       /\ ha[r].pc = "returned"
       /\ ha[r].err = StartingError
       /\ ha[r].retries = 2
       /\ ha[r].attempts = 3
       /\ lastOp.name = "ctx.Done"

\* ------------------------------------------------------------------------
\* Specification SpecByName: GetMetricByName against a registry whose targets are
\* upserted, removed and sampled in any order
\* ------------------------------------------------------------------------
NextByName ==
    \/ ProviderTick
    \/ \E pod \in Pods : SetKapiData("ns1", pod, "u1", NilMap, "url1")
    \/ \E pod \in Pods : RemoveKapiData("ns1", pod)
    \/ \E count \in 0..MaxProviderCount :
          SetKapiMetricsBegin(TenantCaller, "ns1", SamplePod, count)
    \/ SetKapiMetricsLocked(TenantCaller)
    \/ \E pod \in Pods : GetMetricByName("ns1", pod, metricName)

SpecByName == InitRegistry /\ [][NextByName]_vars

\* The targets of a tenant that carry the name
Matching(sh, ns, name) ==
    {i \in 1..Len(sh[ns].KapiData) : sh[ns].KapiData[i].podName = name}

\* C32: no tenant ever holds two targets of the same pod name, so a GetMetricByName
\* call matches at most one target, finds at most one item and returns no error;
\* handed more than one item, GetMetricByName returns the error and no value.
C32_OneTargetPerName ==
    /\ \A ns \in Namespaces, pod \in Pods : Cardinality(Matching(shoots, ns, pod)) <= 1
    /\ lastOp.name = "GetMetricByName"
       => LET items == getMetricByPredicate(shoots, lastOp.arg[1], lastOp.arg[2],
                                            lastOp.arg[3], lastOp.t)
          IN /\ Len(items) <= 1
             /\ lastOp.arg[4] = ""
             /\ lastOp.ok <=> Len(items) = 1
             /\ Len(items) = 1
                => /\ GetMetricByNameResult(items) = [ok |-> TRUE, value |-> lastOp.val, err |-> ""]
                   /\ GetMetricByNameResult(items \o items)
                        = [ok |-> FALSE, value |-> 0, err |-> MultipleMetricsError]

\* A value was served for the sampled target, which stands behind another target
\* of its tenant
C32_Witness ==
    /\ lastOp.name = "GetMetricByName"
    /\ lastOp.ok
    /\ lastOp.arg[2] = SamplePod
    /\ Len(shoots["ns1"].KapiData) = 2
    /\ shoots["ns1"].KapiData[2].podName = SamplePod

\* ------------------------------------------------------------------------
\* GetNext under SpecQueue, where the registry's callers run between its steps
\* ------------------------------------------------------------------------
\* The step is GetNext's return of a target
GetNextReturnsTarget == lastOp' = Op("GetNext", TRUE) /\ targetLock = "GetNextSettle"

\* The step is a round of getNextCandidateThreadUnsafe's loop
CandidateRound == targetLock = "GetNext" /\ targets # <<>> /\ <<targets, candidate, targetLock>>' # <<targets, candidate, targetLock>>

\* What holds of every GetNext whatever the registry's record of the target
GetNextSelectsAndRotates ==
    /\ CandidateRound
       => IF HasKapi(shoots, Head(targets).Namespace, Head(targets).PodName)
          THEN /\ targets' = targets
               /\ targetLock' = "GetNextSettle" => candidate' = [target |-> Head(targets), now |-> now]
          ELSE /\ targets' = Tail(targets)
               /\ targetLock' = "GetNext"
               /\ candidate' = candidate
    /\ GetNextReturnsTarget
       => /\ candidate.target = Head(targets)
          /\ targets' = Append(Tail(targets), Head(targets))

\* C33 as stated: whenever GetNext returns a target, the target was in the registry
\* when it was selected, its LastMetricsScrapeTime in the registry is the time GetNext
\* read, and it has moved from the head to the tail; a head missing from the
\* registry is removed and not returned.
C33_ReturnedTargetIsStamped ==
    [][/\ GetNextSelectsAndRotates
       /\ GetNextReturnsTarget
          => /\ HasKapi(shoots', candidate.target.Namespace, candidate.target.PodName)
             /\ getKapiDataThreadUnsafe(shoots', candidate.target.Namespace,
                                        candidate.target.PodName).LastMetricsScrapeTime
                  = candidate.now]_vars

\* C33, amended: the time is recorded if the registry still holds the target when
\* SetKapiLastScrapeTime runs; a target removed since its selection is rotated and
\* returned all the same, and the registry is left as it is.
C33_ReturnedTargetIsStampedIfStillThere ==
    [][/\ GetNextSelectsAndRotates
       /\ GetNextReturnsTarget
          => IF HasKapi(shoots, candidate.target.Namespace, candidate.target.PodName)
             THEN /\ HasKapi(shoots', candidate.target.Namespace, candidate.target.PodName)
                  /\ getKapiDataThreadUnsafe(shoots', candidate.target.Namespace,
                                             candidate.target.PodName).LastMetricsScrapeTime
                       = candidate.now
             ELSE shoots' = shoots]_vars

\* GetNext has returned p1 at a clock value above zero with p1's record stamped and
\* the other target now at the head
C33_Witness ==
    /\ lastOp = Op("GetNext", TRUE)
    /\ Len(targets) = 2
    /\ targets[2] = scrapeTarget("ns1", "p1")
    /\ HasKapi(shoots, "ns1", "p1")
    /\ getKapiDataThreadUnsafe(shoots, "ns1", "p1").LastMetricsScrapeTime = now
    /\ now > ZeroTime

\* GetNext has returned a target that the registry gave up after it was selected
C33_WitnessRemoved ==
    /\ lastOp = Op("GetNext", TRUE)
    /\ targets # <<>>
    /\ ~HasKapi(shoots, targets[Len(targets)].Namespace, targets[Len(targets)].PodName)

\* ------------------------------------------------------------------------
\* DueCount under SpecQueue
\* ------------------------------------------------------------------------
LastScrapeTimeOf(sh, t) == getKapiDataThreadUnsafe(sh, t.Namespace, t.PodName).LastMetricsScrapeTime

\* The queued targets of the registry for which a scrape is due at dueAtTime
DueTargets(ts, sh, dueAtTime, excludeUnscraped) ==
    {i \in 1..Len(ts) :
        /\ HasKapi(sh, ts[i].Namespace, ts[i].PodName)
        /\ ~AfterCutoff(LastScrapeTimeOf(sh, ts[i]), dueAtTime)
        /\ ~excludeUnscraped \/ LastScrapeTimeOf(sh, ts[i]) # ZeroTime}

\* Least recently scraped first, a target never scraped counting as the least recent
InLruOrder(ts, sh) ==
    \A i, j \in 1..Len(ts) :
       (/\ i < j
        /\ HasKapi(sh, ts[i].Namespace, ts[i].PodName)
        /\ HasKapi(sh, ts[j].Namespace, ts[j].PodName))
       => LastScrapeTimeOf(sh, ts[i]) <= LastScrapeTimeOf(sh, ts[j])

\* C34: the queue is in least-recently-scraped-first order at all times, and the
\* number DueCount returns is the number of queued targets of the registry that are
\* due at the time given, the never-scraped ones counted unless excluded.
C34_DueCountIsExact ==
    /\ InLruOrder(targets, shoots)
    /\ (lastOp.name = "DueCount" /\ lastOp.ok)
       => lastOp.val = Cardinality(DueTargets(targets, shoots, lastOp.arg[1], lastOp.arg[2]))

\* What does hold: DueCount counts the due targets ahead of the first target that
\* is not due, so it never exceeds the number due and equals it when the queue is in
\* order
DueCountNeverOvercounts ==
    (lastOp.name = "DueCount" /\ lastOp.ok)
    => /\ lastOp.val <= Cardinality(DueTargets(targets, shoots, lastOp.arg[1], lastOp.arg[2]))
       /\ InLruOrder(targets, shoots)
          => lastOp.val = Cardinality(DueTargets(targets, shoots, lastOp.arg[1], lastOp.arg[2]))

\* ------------------------------------------------------------------------
\* The size of a shift under SpecScraper
\* ------------------------------------------------------------------------
\* The step is a call of startShiftWorkers
ShiftStep == lastOp'.name = "startShiftWorkers" /\ lastOp' # lastOp

\* The workers the step has spawned
SpawnedNow == sc'.activeWorkerCount - sc.activeWorkerCount

\* ceil(dueNow / throughput) for throughput = max(1, (lastTargets - leftover) / lastWorkers)
\* and lastWorkers >= 1: the least n with n * throughput >= dueNow
CeilOverThroughput(dueNow, lastTargets, leftover, lastWorkers) ==
    LET num == Max(lastTargets - leftover, lastWorkers)
    IN CHOOSE n \in 0..(dueNow * lastWorkers) :
          /\ n * num >= dueNow * lastWorkers
          /\ \A k \in 0..(n - 1) : k * num < dueNow * lastWorkers

\* The wanted count raised to the minimum, or cut to the shift's maximum and to the
\* room left under the total
Clamped(want, active) ==
    IF want < minShiftWorkerCount THEN minShiftWorkerCount
    ELSE Min(want, Min(maxShiftWorkerCount, maxActiveWorkerCount - active))

\* C35: at each shift the throughput is max(1, (lastTargetCount - leftover) /
\* lastWorkerCount), a division that is defined; the wanted count is
\* ceil(dueNow / throughput) capped at twice lastWorkerCount if leftover > 0 and
\* lastWorkerCount - 1 otherwise; the clamped count is recorded with the time and
\* dueNow, and that many workers are spawned.
C35_ShiftSizeFormula ==
    [][ShiftStep
       => LET dueNow == lastOp'.arg[1]
              leftover == lastOp'.arg[2]
              lastWorkers == sc.lastShiftWorkerCount
          IN /\ lastWorkers >= 1
             /\ LET want == IF leftover > 0
                            THEN Min(CeilOverThroughput(dueNow, sc.lastShiftScrapeTargetCount,
                                                        leftover, lastWorkers),
                                     2 * lastWorkers)
                            ELSE lastWorkers - 1
                    count == Clamped(want, sc.activeWorkerCount)
                IN /\ sc'.lastShiftWorkerCount = count
                   /\ sc'.lastShiftStartTime = now
                   /\ sc'.lastShiftScrapeTargetCount = dueNow
                   /\ SpawnedNow = count]_vars

\* What does hold: with a recorded lastShiftWorkerCount of at least 1 the recorded
\* count follows the formula, and the workers spawned are that count or none if it
\* is negative
ShiftSizeFormulaWhereDefined ==
    [][(ShiftStep /\ sc.lastShiftWorkerCount >= 1)
       => LET dueNow == lastOp'.arg[1]
              leftover == lastOp'.arg[2]
              lastWorkers == sc.lastShiftWorkerCount
              want == IF leftover > 0
                      THEN Min(CeilOverThroughput(dueNow, sc.lastShiftScrapeTargetCount,
                                                  leftover, lastWorkers),
                               2 * lastWorkers)
                      ELSE lastWorkers - 1
              count == Clamped(want, sc.activeWorkerCount)
          IN /\ sc'.lastShiftWorkerCount = count
             /\ sc'.lastShiftStartTime = now
             /\ sc'.lastShiftScrapeTargetCount = dueNow
             /\ SpawnedNow = Max(count, 0)]_vars

\* C36: every shift spawns at least minShiftWorkerCount and at most
\* maxShiftWorkerCount workers, and the recorded lastShiftWorkerCount is at least 1
\* at all times.
C36_ShiftWithinMinMax ==
    [][/\ sc.lastShiftWorkerCount >= 1
       /\ ShiftStep
          => /\ SpawnedNow >= minShiftWorkerCount
             /\ SpawnedNow <= maxShiftWorkerCount
             /\ sc'.lastShiftWorkerCount >= 1]_vars

\* C37: a shift that follows another spawns at most twice as many workers as that
\* one, and at most one worker fewer.
C37_GrowthAndShrinkBounded ==
    [][(ShiftStep /\ sc.lastShiftStartTime # ZeroTime)
       => /\ SpawnedNow <= 2 * Max(sc.lastShiftWorkerCount, 0)
          /\ SpawnedNow >= Max(sc.lastShiftWorkerCount, 0) - 1]_vars

\* ------------------------------------------------------------------------
\* The pacemaker's rate and the queue's length (under SpecQueue)
\* ------------------------------------------------------------------------
\* RateDebtLimit is the target count and MinRate the count per scrapePeriod (in
\* the pacemaker's units per tick, Unit being scrapePeriod, that is the count)
PacemakerFollows(ts) == pm.RateDebtLimit = Len(ts) /\ pm.MinRate = Len(ts)

\* C38: whenever q.targetLock is free (no queue operation is in progress), the
\* pacemaker's RateDebtLimit equals the number of targets in the queue and its
\* MinRate that number per scrapePeriod, whichever step changed the list last.
C38_PacemakerTracksQueueLength == targetLock = "free" => PacemakerFollows(targets)

\* What does hold: the equality is there after every event the worker processes,
\* and whenever the queue is open with no event under way
PacemakerUpdatedPerEvent ==
    [][lastOp'.name = "processSingleKapiEvent" /\ workerEvent # NoEvent /\ workerEvent' = NoEvent
       => (pm'.RateDebtLimit = Len(targets') /\ pm'.MinRate = Len(targets'))]_vars

PacemakerFollowsWhenDrained ==
    (/\ closePc = "open" /\ updateQueue = <<>> /\ workerEvent = NoEvent
     /\ sendBlocked = NoEvent /\ targetLock = "free")
    => PacemakerFollows(targets)

\* ------------------------------------------------------------------------
\* The consecutive-fault counter (under SpecSamples)
\* ------------------------------------------------------------------------
\* C39: every SetKapiMetrics call on a target on record leaves its FaultCount at
\* zero, whether the sample is accepted or ignored; a new record starts at zero,
\* NotifyKapiMetricsFault adds one, and no other step changes the counter: it is
\* the number of failed scrapes since the last successful scrape or the creation.
C39_FaultCountSinceLastSample ==
    [][\A ns \in Namespaces, pod \in Pods :
          LET SetHere == \E c \in Callers :
                            /\ setPending[c].active /\ ~setPending'[c].active
                            /\ setPending[c].ns = ns /\ setPending[c].pod = pod
              FaultHere == /\ lastOp'.name = "NotifyKapiMetricsFault"
                           /\ lastOp'.arg = <<ns, pod>>
                           /\ shoots' # shoots
          IN /\ (~HasKapi(shoots, ns, pod) /\ HasKapi(shoots', ns, pod))
                => getKapiDataThreadUnsafe(shoots', ns, pod).FaultCount = 0
             /\ (HasKapi(shoots, ns, pod) /\ HasKapi(shoots', ns, pod))
                => getKapiDataThreadUnsafe(shoots', ns, pod).FaultCount =
                      IF SetHere THEN 0
                      ELSE IF FaultHere THEN KapiOf(ns, pod).FaultCount + 1
                      ELSE KapiOf(ns, pod).FaultCount]_vars

\* A sample was ignored (it came too soon after the stored one) and the two faults
\* counted before it are forgotten all the same
C39_Witness ==
    /\ lastOp.name = "SetKapiMetrics" /\ ~lastOp.ok
    /\ HasKapi(shoots, "ns1", SamplePod)
    /\ KapiOf("ns1", SamplePod).FaultCount = 0
    /\ KapiOf("ns1", SamplePod).MetricsTimeNew # ZeroTime
    /\ KapiOf("ns1", SamplePod).TotalRequestCountNew # lastOp.val
    /\ lastOp.arg = <<2>>

\* ------------------------------------------------------------------------
\* Specification SpecHandOut: one Scraper.Start call whose workers take their
\* targets from a scrape queue holding one target, with its pacemaker, while the
\* clock advances and the context is cancelled at any moment
\* ------------------------------------------------------------------------
\* ScrapeQueue: target := s.queue.GetNext(), the call as the queue runs it: the
\* candidate, the pacemaker's decision, SetKapiLastScrapeTime and MoveToBack
ScrapeQueueGetNextFromQueue(i) ==
    LET c == getNextCandidateTargets(targets, shoots)
        isAllowedToScrape == c # <<>> /\ PMAllowed(pm, now, GetNextEager(targets, shoots, now))
    IN /\ startRun.worker[i].pc = "GetNext"
       /\ isAllowedToScrape => startRun.worker[i].scrapes < MaxScrapes
       /\ pm' = IF c = <<>> THEN pm
                ELSE GetScrapePermissionPM(pm, now, GetNextEager(targets, shoots, now))
       /\ shoots' = GetNextShoots(targets, shoots, now, isAllowedToScrape)
       /\ targets' = GetNextTargets(targets, shoots, isAllowedToScrape)
       /\ startRun' = [startRun EXCEPT !.worker[i].target = IF isAllowedToScrape THEN Head(c)
                                                            ELSE NoTarget,
                                       !.worker[i].pc = IF isAllowedToScrape THEN "ctxErr"
                                                        ELSE "deferAdd"]
       /\ lastOp' = OpOn("GetNext", isAllowedToScrape, now, [who |-> i, result |-> 0],
                         IF isAllowedToScrape THEN <<Head(c).Namespace, Head(c).PodName>>
                         ELSE <<>>)
       /\ notified' = <<>>
       /\ UNCHANGED <<kapiWatchers, labelHeap, now, setPending, snapshot, callerMap, removedOk,
                      watcherLog, logVars, haVars, sc, response>>
       /\ UNCHANGED <<updateQueue, sendBlocked, workerEvent, workerExited, targetLock,
                      candidate, closePc>>

\* The registry of InitStart, and the queue after the worker applied the create
\* event of its target
InitHandOut ==
    /\ shoots = ScrapableShoots
    /\ kapiWatchers = <<>>
    /\ labelHeap = <<>>
    /\ now = StartTime
    /\ setPending = [c \in Callers |-> NoPending]
    /\ snapshot = <<>>
    /\ callerMap = NilMap
    /\ lastOp = Op("init", TRUE)
    /\ notified = <<>>
    /\ removedOk = {}
    /\ watcherLog = <<>>
    /\ callerLog = NewCallerLog("mixed")
    /\ getNextLog = NewGetNextLog
    /\ closeCalls = NoCloseCalls
    /\ InitHAService
    /\ InitScraper
    /\ targets = TargetsOf(<<SamplePod>>)
    /\ pm = UpdateRatePM(newPacemaker(0, 0), Len(targets), Len(targets))
    /\ sendBlocked = NoEvent
    /\ workerEvent = NoEvent
    /\ workerExited = FALSE
    /\ targetLock = "free"
    /\ candidate = NoCandidate
    /\ closePc = "open"
    /\ updateQueue = <<>>

NextHandOut ==
    \/ Tick
    \/ ScraperStart
    \/ CancelCtx
    \/ StartCtxDone
    \/ \E thisTargets \in 0..MaxDueCount, unprocessed \in 0..MaxDueCount :
          /\ unprocessed <= sc.lastShiftScrapeTargetCount
          /\ StartTicker(thisTargets, unprocessed)
    \/ StartReturn
    \/ \E i \in WorkerIds : ScrapeQueueGetNextFromQueue(i)
    \/ \E i \in WorkerIds : ScrapeQueueCtxErr(i)
    \/ \E i \in WorkerIds : scrapeRead(i)
    \/ \E i \in WorkerIds, outcome \in FetchOutcomes : scrapeFetch(i, outcome)
    \/ \E i \in WorkerIds : workerProcDeferAdd(i)
    \/ \E i \in WorkerIds : workerProcDeferDone(i)

SpecHandOut == InitHandOut /\ [][NextHandOut]_vars

\* C40: a worker that GetNext has handed a target (the target's lastScrapeTime
\* advanced, the target rotated to the tail, a grant of the pacemaker consumed)
\* goes on to scrape that target, whenever the context is cancelled.
C40_HandedOutTargetIsScraped ==
    [][\A i \in WorkerIds :
          (startRun.worker[i].pc = "ctxErr" /\ startRun'.worker[i].pc # "ctxErr")
          => /\ startRun'.worker[i].pc = "scrape"
             /\ startRun'.worker[i].target = startRun.worker[i].target]_vars

\* What does hold: GetNext marks the target it hands out, and the worker scrapes
\* it unless the context is done when the loop condition is evaluated
HandedOutTargetIsMarked ==
    [][\A i \in WorkerIds :
          (startRun.worker[i].pc = "GetNext" /\ startRun'.worker[i].pc = "ctxErr")
          => LET t == startRun'.worker[i].target
             IN /\ getKapiDataThreadUnsafe(shoots', t.Namespace, t.PodName).LastMetricsScrapeTime = now
                /\ targets'[Len(targets')] = t
                /\ pm'.currentSurplus = PMElapsed(pm, now).currentSurplus + Unit]_vars

HandedOutTargetIsScrapedUnlessDone ==
    [][\A i \in WorkerIds :
          (startRun.worker[i].pc = "ctxErr" /\ startRun'.worker[i].pc # "ctxErr")
          => IF startRun.done THEN startRun'.worker[i].pc = "deferAdd"
             ELSE startRun'.worker[i].pc = "scrape"]_vars

====
